---- MODULE Spec2Model ----
(***************************************************************************)
(* A model of the request-orchestration code of cogentic-ai/core: the      *)
(* conversation Memory, the result validation of Agent.handleResponse and  *)
(* the Agent.run retry state machine, in the variants the repository       *)
(* holds.                                                                  *)
(***************************************************************************)
EXTENDS Integers, Sequences, FiniteSets, TLC

(***************************************************************************)
(* Bounds of the model.                                                    *)
(***************************************************************************)
MaxCapacity == 2
MaxAdded == 4
MaxStrLen == 1
MaxRetries == 2
MaxResultRetries == 1
MaxRuns == 2
MaxLoop == 2
MaxToolCalls == 2
MaxLibLoop == 1
MaxPrompts == 2
MaxChunks == 3
MaxRegistered == 3
MaxFields == 2
MaxInvocations == 2
MaxRounds == 4

VARIABLES
  memVariant,       \* which Memory implementation: "lib" or "part004"
  maxMessages,      \* Memory.maxMessages
  keepSystemPrompt, \* Memory.keepSystemPrompt
  messages,         \* Memory.messages
  added,            \* history: every message stored by add, in insertion order
  addThrew          \* history: some add call raised on an invalid message

VARIABLES
  variant,          \* which Agent: "AgentTs", "AgentFn" (Agent.ts), "Part000", "Part011"
  defaultRetries,   \* Agent.defaultRetries
  maxResultRetries, \* Agent.maxResultRetries
  tools,            \* the names of the registered tools
  resultValidators, \* Agent.resultValidators, in registration order
  resultType,       \* Agent.resultType (part_000), "none" when not configured
  modelPriced,      \* MODEL_PRICES has an entry for Agent.model
  usages,           \* the usage records the provider may report
  currentRetry,     \* Agent.currentRetry
  toolRetries,      \* tool.retries of each registered tool
  cost,             \* Agent.cost
  lastRunMessages,  \* Agent.lastRunMessages (<<>> for null)
  pc,               \* where run is: "idle", "attempt", "backoff", "done"
  i,                \* the index of the retry loop of run
  slept,            \* the delay of the backoff timer being awaited
  outcome,          \* what the top-level run returned or raised
  attempts,         \* history: transport calls made by the top-level run
  runs,             \* history: top-level runs started
  retryAtStart,     \* history: currentRetry when the top-level run started
  lastCls,          \* history: how the latest attempt ended
  lastContent,      \* history: the content of the latest response (<<>>: none)
  lastTool,         \* history: the latest tool call and the budgets around it
  only,             \* history: how every attempt of this run ended, or "mixed"
  origError,        \* history: the error that reached the outer catch of run
  expected,         \* history: the sum of what every reported usage contributes
  simple            \* history: every run so far was one successful call with usage

VARIABLES
  loopPc,           \* where run of the tool loop is: "idle", "calling", "done"
  transcript,       \* the local messages array of run of the tool loop
  loopCount,        \* loopCount of run: transport calls made
  loopOutcome,      \* what run of the tool loop returned or threw
  loopHistory,      \* history: the kind of every response received
  completionOrder   \* history: the order the latest tool calls completed in

VARIABLES
  valSchema,        \* the configured resultType ("none" when there is none)
  valContent,       \* the content of the response being handled
  valDone,          \* the content has been handled
  valOut            \* what the validation returned or threw

VARIABLES
  asmIn,            \* the Agent and the arguments of one prepareMessages call
  asmOut            \* the message list it built (done: it has been called)

VARIABLES
  holderKey,        \* AgentConfig._apiKey of the process-wide instance
  envKey,           \* process.env.OPENAI_API_KEY
  credAgent,        \* the constructor call: not made, the Agent, or the error
  credSeen,         \* history: the argument, holder and environment it saw
  dispatchedKey     \* history: the credential of a transport call made

VARIABLES
  streamPc,         \* where runStream is: "idle", "open", "done", "raised"
  arrived,          \* history: the chunks the transport stream has delivered
  yielded,          \* the fragments runStream has yielded
  streamCalls       \* history: the transport calls runStream has made

VARIABLES
  regVariant,       \* which Agent the tools are registered with
  registry,         \* this.tools: the registered tools, in the advertised order
  registrations,    \* history: the registerTool calls made
  regThrew,         \* a registration raised an error
  regDefault,       \* the defaultRetries of that Agent
  atRunStart,       \* a run has just reset the budgets of the tools
  lastCall          \* the latest tool call and the handler it invoked

VARIABLES
  crossVariant,     \* which Agent with cross-call memory: "SrcAgent", "Part012"
  crossSchema,      \* its responseType / responseSchema ("none": there is none)
  crossMock,        \* config.model === "mock"
  crossTools,       \* the names of config.tools (part_012)
  crossMemory,      \* the messages of its memory
  crossBefore,      \* history: the memory when the latest run was called
  crossOutcome,     \* what the latest run returned or threw
  crossRuns         \* history: the runs made

VARIABLES
  execTool,         \* the Tool of a ToolExecutor and the params of the call
  execPc,           \* where execute is: the step to take next, "catch", "done"
  execEvents,       \* history: the steps execute has taken, in order
  execError,        \* the error caught by the catch block (NoError: none)
  execOutcome       \* what execute returned or threw

VARIABLES
  genIn,            \* the generator called and the Zod schema given to it
  genOut            \* the descriptor it returned (done: it has been called)

VARIABLES
  lrVariant,        \* which Agent getLastRunMessages is called on
  lrMessages,       \* its lastRunMessages (<<>> for null)
  lrPc,             \* "idle", or "attempt" while a run is under way
  lrPrompt,         \* the userPrompt of the latest run or runStream call
  lrInvocations,    \* how often the dynamic system prompt has been invoked
  lrRetry,          \* its currentRetry
  lrCalls,          \* the run and runStream calls made
  lrLog             \* history: what the calls did, in order

VARIABLES
  ccDefault,        \* defaultRetries of the Agent run concurrently
  ccMax,            \* its maxResultRetries
  ccPc,             \* where each invocation of run is
  ccI,              \* the loop index i of each invocation
  ccBudget,         \* tool.retries of its tool
  ccRetry,          \* its currentRetry
  ccCost,           \* the token counts of its cost
  ccActor,          \* history: the invocation that took the latest step
  ccVariant,        \* which Agent: "AgentTs", or "Part000" (token counts add up)
  ccOverlap,        \* history (Part000): counts were updated while another invocation was under way
  ccReported,       \* history (Part000): the sum of the usages of all responses so far
  ccCounted         \* history (Part000): the sum of the usages of the responses with content

VARIABLES
  frVariant,        \* which Agent run is called on
  frHeap,           \* the arrays that exist, each with its elements
  frHistory,        \* the array the caller passes as options.messageHistory
  frHistory0,       \* history: the elements the caller put in that array
  frTranscripts     \* history: the array of each run and its elements at the return

VARIABLES
  llPc,             \* run of lib/agent.ts: "calling" or "done"
  llRounds,         \* the rounds of tool execution it has made
  llToolResults,    \* its toolResults: the result kept for each tool name
  llLast            \* history: the calls of the latest round, the order they completed in

memVars == <<memVariant, maxMessages, keepSystemPrompt, messages, added, addThrew>>
valVars == <<valSchema, valContent, valDone, valOut>>
configVars == <<variant, defaultRetries, maxResultRetries, tools, resultValidators,
                resultType, modelPriced, usages>>
runVarsButMessages ==
  <<currentRetry, toolRetries, cost, pc, i, slept, outcome, attempts, runs, retryAtStart,
    lastCls, lastContent, lastTool, only, origError, expected, simple>>
runVars == <<runVarsButMessages, lastRunMessages>>
loopVars ==
  <<loopPc, transcript, loopCount, loopOutcome, loopHistory, completionOrder>>
agentVars == <<configVars, runVars, loopVars>>
asmVars == <<asmIn, asmOut>>
credVars == <<holderKey, envKey, credAgent, credSeen, dispatchedKey>>
streamVars == <<streamPc, arrived, yielded, streamCalls>>
regVars == <<regVariant, registry, registrations, regThrew, lastCall,
             regDefault, atRunStart>>

crossVars == <<crossVariant, crossSchema, crossMock, crossTools, crossMemory,
               crossBefore, crossOutcome, crossRuns>>
coreVars == <<memVars, valVars, agentVars, asmVars, credVars, streamVars, regVars>>
execVars == <<execTool, execPc, execEvents, execError, execOutcome>>
genVars == <<genIn, genOut>>
lrVars == <<lrVariant, lrMessages, lrPc, lrPrompt, lrInvocations, lrRetry, lrCalls,
           lrLog>>
ccVars == <<ccDefault, ccMax, ccPc, ccI, ccBudget, ccRetry, ccCost, ccActor,
           ccVariant, ccOverlap, ccReported, ccCounted>>
frVars == <<frVariant, frHeap, frHistory, frHistory0, frTranscripts>>
llVars == <<llPc, llRounds, llToolResults, llLast>>
extraVars == <<crossVars, execVars, genVars, lrVars, ccVars, frVars, llVars>>

vars == <<coreVars, extraVars>>

\* What a step of one component leaves alone: the other components.
exceptMemory == <<valVars, agentVars, asmVars, credVars, streamVars, regVars, extraVars>>
exceptValidate == <<memVars, agentVars, asmVars, credVars, streamVars, regVars, extraVars>>
exceptAgent == <<memVars, valVars, asmVars, credVars, streamVars, regVars, extraVars>>
exceptAssembly == <<memVars, valVars, agentVars, credVars, streamVars, regVars, extraVars>>
exceptCredentials == <<memVars, valVars, agentVars, asmVars, streamVars, regVars, extraVars>>
exceptStream == <<memVars, valVars, asmVars, credVars, regVars, extraVars>>
exceptRegistry == <<memVars, valVars, agentVars, asmVars, credVars, streamVars, extraVars>>
exceptCross == <<coreVars, execVars, genVars, lrVars, ccVars, frVars, llVars>>
exceptExec == <<coreVars, crossVars, genVars, lrVars, ccVars, frVars, llVars>>
exceptGen == <<coreVars, crossVars, execVars, lrVars, ccVars, frVars, llVars>>
exceptLastRun == <<coreVars, crossVars, execVars, genVars, ccVars, frVars, llVars>>
exceptConc == <<coreVars, crossVars, execVars, genVars, lrVars, frVars, llVars>>
exceptFrame == <<coreVars, crossVars, execVars, genVars, lrVars, ccVars, llVars>>
exceptLibRun == <<coreVars, crossVars, execVars, genVars, lrVars, ccVars, frVars>>

(***************************************************************************)
(* Sequence helpers.                                                       *)
(***************************************************************************)
RECURSIVE SelectSeqBy(_, _, _)
\* Array.prototype.filter on the role: keep the messages whose role is
\* `role` (wantEqual) or is not `role` (~wantEqual), in order.
SelectSeqBy(s, role, wantEqual) ==
  IF s = <<>> THEN <<>>
  ELSE LET h == Head(s)
           rest == SelectSeqBy(Tail(s), role, wantEqual)
       IN IF (h.role = role) = wantEqual THEN <<h>> \o rest ELSE rest

\* The last n elements of s, all of s when n >= Len(s).
LastN(s, n) ==
  IF n >= Len(s) THEN s ELSE SubSeq(s, Len(s) - n + 1, Len(s))

\* Array.prototype.slice(-n) for n >= 0: a negative start counts from the
\* end, but -0 is 0, so slice(-0) is slice(0), the whole array.
SliceNeg(s, n) ==
  IF n = 0 THEN s ELSE LastN(s, n)

(***************************************************************************)
(* Memory (src/src/lib/memory.ts, src/unnamed/part_004).                   *)
(***************************************************************************)
MemVariants == {"lib", "part004"}

\* The roles validateMessage accepts.
AllowedRoles(v) ==
  IF v = "lib" THEN {"user", "assistant", "system"}
  ELSE {"system", "user", "assistant", "tool"}

\* The content kinds validateMessage accepts: a string, and in part_004
\* also null.
AllowedContent(v) ==
  IF v = "lib" THEN {"text"} ELSE {"text", "null"}

\* validateMessage: TRUE when it returns the message, FALSE when it throws.
validateMessage(v, m) ==
  /\ m.role \in AllowedRoles(v)
  /\ m.content \in AllowedContent(v)

\* Memory.truncate.
truncate(msgs, max, keep) ==
  IF Len(msgs) > max
  THEN LET systemMessages == IF keep THEN SelectSeqBy(msgs, "system", TRUE) ELSE <<>>
           nonSystemMessages == SliceNeg(SelectSeqBy(msgs, "system", FALSE), max)
       IN systemMessages \o nonSystemMessages
  ELSE msgs

\* The index of the first message of the batch that validateMessage
\* rejects, 0 when all are accepted.
RECURSIVE FirstInvalid(_, _, _)
FirstInvalid(v, batch, k) ==
  IF k > Len(batch) THEN 0
  ELSE IF ~validateMessage(v, batch[k]) THEN k
  ELSE FirstInvalid(v, batch, k + 1)

\* The messages the callers hand to add: the valid roles, a role only
\* part_004 accepts, an unknown role, null content and non-text content.
InputMessages ==
  { [role |-> "system", content |-> "text"],
    [role |-> "user", content |-> "text"],
    [role |-> "tool", content |-> "text"],
    [role |-> "function", content |-> "text"],
    [role |-> "assistant", content |-> "null"],
    [role |-> "user", content |-> "number"] }

\* A message given to add; id numbers the messages in the order they are
\* given, so that two messages are never confused.
Msg(r, c, n) == [role |-> r, content |-> c, id |-> n]

MemoryInit ==
  /\ memVariant \in MemVariants
  /\ maxMessages \in 0..MaxCapacity
  /\ keepSystemPrompt \in BOOLEAN
  /\ messages = <<>>
  /\ added = <<>>
  /\ addThrew = FALSE

\* Memory.add(...batch): push each message after validating it (forEach
\* stops at the first one validateMessage throws on, leaving the earlier
\* ones pushed and skipping truncate), then truncate.
Add(batch) ==
  LET bad == FirstInvalid(memVariant, batch, 1)
      pushed == IF bad = 0 THEN batch ELSE SubSeq(batch, 1, bad - 1)
  IN /\ Len(added) + Len(batch) <= MaxAdded
     /\ added' = added \o pushed
     /\ addThrew' = (addThrew \/ bad # 0)
     /\ messages' = IF bad = 0
                    THEN truncate(messages \o pushed, maxMessages, keepSystemPrompt)
                    ELSE messages \o pushed
     /\ UNCHANGED <<memVariant, maxMessages, keepSystemPrompt, exceptMemory>>

AddOne ==
  \E m \in InputMessages :
    Add(<<Msg(m.role, m.content, Len(added) + 1)>>)

\* addToMemory(userMessage, { role: "assistant", content }) of run: two
\* messages in one call, the assistant content being whatever the provider
\* returned.
AddTwo ==
  \E c \in {"text", "number"} :
    Add(<<Msg("user", "text", Len(added) + 1),
          Msg("assistant", c, Len(added) + 2)>>)

(***************************************************************************)
(* Errors.  An error is a record: its class (kind), its message, the zod   *)
(* issues a validation error lists, and the cause an AgentError wraps.     *)
(***************************************************************************)
NoError == [kind |-> "none"]

\* at tells the errors of different transport attempts apart (0 elsewhere).
Err(kind, msg) ==
  [kind |-> kind, msg |-> msg, issues |-> <<>>, cause |-> NoError, at |-> 0]

\* new AgentError(message, cause)
AgentError(msg, cause) ==
  [kind |-> "AgentError", msg |-> msg, issues |-> <<>>, cause |-> cause, at |-> 0]

\* What a handler may throw that is not an Error object (throw "text").
NonError == Err("NonError", "thrown value")

\* error instanceof Error
IsErrorObject(e) == e.kind \in {"AgentError", "ModelRetry", "Error", "SyntaxError"}

\* new ModelRetry(message)
ModelRetry(msg) == Err("ModelRetry", msg)

(***************************************************************************)
(* JSON text and values.  A text is a sequence of characters; the          *)
(* alphabet is braces, the double quote ("q"), the colon, the backslash    *)
(* ("b"), the digit 1 and the letters a and A.                             *)
(***************************************************************************)
Quote == "q"
Backslash == "b"

StrV(s) == [t |-> "str", s |-> s]
NumV(n) == [t |-> "num", n |-> n]
ObjV(k, v) == [t |-> "obj", k |-> k, v |-> v]     \* {k: v}
EmptyObj == [t |-> "obj0"]                        \* {}
Undefined == [t |-> "undefined"]

RECURSIVE EscapeChars(_)
\* JSON.stringify of a string's characters: quote and backslash escaped.
EscapeChars(s) ==
  IF s = <<>> THEN <<>>
  ELSE (IF Head(s) \in {Quote, Backslash} THEN <<Backslash, Head(s)>> ELSE <<Head(s)>>)
       \o EscapeChars(Tail(s))

RECURSIVE Digits(_)
\* The decimal digits of a number written with the digit 1 only.
Digits(n) == IF n < 10 THEN <<"1">> ELSE Digits(n \div 10) \o <<"1">>

RECURSIVE Stringify(_)
\* JSON.stringify(value).
Stringify(v) ==
  CASE v.t = "str" -> <<Quote>> \o EscapeChars(v.s) \o <<Quote>>
    [] v.t = "num" -> Digits(v.n)
    [] v.t = "obj0" -> <<"{", "}">>
    [] v.t = "obj" ->
         <<"{", Quote>> \o EscapeChars(v.k) \o <<Quote, ":">> \o Stringify(v.v) \o <<"}">>

ParseFail == [ok |-> FALSE]

RECURSIVE ScanString(_, _, _)
\* The string literal whose opening quote came before position p.
ScanString(t, p, acc) ==
  IF p > Len(t) THEN ParseFail
  ELSE IF t[p] = Quote THEN [ok |-> TRUE, v |-> acc, next |-> p + 1]
  ELSE IF t[p] = Backslash
       THEN IF p + 1 <= Len(t) /\ t[p + 1] \in {Quote, Backslash}
            THEN ScanString(t, p + 2, Append(acc, t[p + 1]))
            ELSE ParseFail
  ELSE ScanString(t, p + 1, Append(acc, t[p]))

RECURSIVE ScanNumber(_, _, _)
ScanNumber(t, p, acc) ==
  IF p <= Len(t) /\ t[p] = "1"
  THEN ScanNumber(t, p + 1, 10 * acc + 1)
  ELSE [ok |-> TRUE, v |-> NumV(acc), next |-> p]

RECURSIVE ParseValue(_, _)
\* The JSON value starting at position p of text t.
ParseValue(t, p) ==
  IF p > Len(t) THEN ParseFail
  ELSE IF t[p] = Quote
       THEN LET r == ScanString(t, p + 1, <<>>)
            IN IF r.ok THEN [ok |-> TRUE, v |-> StrV(r.v), next |-> r.next] ELSE ParseFail
  ELSE IF t[p] = "1" THEN ScanNumber(t, p, 0)
  ELSE IF t[p] = "{"
       THEN IF p + 1 <= Len(t) /\ t[p + 1] = "}"
            THEN [ok |-> TRUE, v |-> EmptyObj, next |-> p + 2]
            ELSE IF p + 1 <= Len(t) /\ t[p + 1] = Quote
            THEN LET key == ScanString(t, p + 2, <<>>)
                 IN IF key.ok /\ key.next <= Len(t) /\ t[key.next] = ":"
                    THEN LET val == ParseValue(t, key.next + 1)
                         IN IF val.ok /\ val.next <= Len(t) /\ t[val.next] = "}"
                            THEN [ok |-> TRUE, v |-> ObjV(key.v, val.v),
                                  next |-> val.next + 1]
                            ELSE ParseFail
                    ELSE ParseFail
            ELSE ParseFail
  ELSE ParseFail

\* JSON.parse(text): the value, or ok = FALSE for a SyntaxError.
JSONParse(t) ==
  LET r == ParseValue(t, 1)
  IN IF r.ok /\ r.next = Len(t) + 1 THEN [ok |-> TRUE, v |-> r.v] ELSE ParseFail

\* safeJSONParse(content) of lib/utils: undefined instead of throwing.
safeJSONParse(t) ==
  LET r == JSONParse(t) IN IF r.ok THEN r.v ELSE Undefined

(***************************************************************************)
(* Result schemas (zod): z.string(), z.number(),                           *)
(* City = z.object({a: z.string()}) and Schema.textOr(City) =              *)
(* z.union([z.string(), City]).                                            *)
(***************************************************************************)
Schemas == {"string", "number", "city", "textOrCity"}

Issue(code, path) == [code |-> code, path |-> path]

RECURSIVE safeParse(_, _)
\* schema.safeParse(value): success with the data, or the issues.
safeParse(schema, v) ==
  CASE schema = "string" ->
         IF v.t = "str" THEN [success |-> TRUE, data |-> v]
         ELSE [success |-> FALSE, issues |-> <<Issue("invalid_type", <<>>)>>]
    [] schema = "number" ->
         IF v.t = "num" THEN [success |-> TRUE, data |-> v]
         ELSE [success |-> FALSE, issues |-> <<Issue("invalid_type", <<>>)>>]
    [] schema = "city" ->
         IF v.t \notin {"obj", "obj0"}
         THEN [success |-> FALSE, issues |-> <<Issue("invalid_type", <<>>)>>]
         ELSE IF v.t = "obj" /\ v.k = <<"a">> /\ v.v.t = "str"
         THEN [success |-> TRUE, data |-> v]
         ELSE [success |-> FALSE, issues |-> <<Issue("invalid_type", <<"a">>)>>]
    [] schema = "textOrCity" ->
         LET first == safeParse("string", v)
             second == safeParse("city", v)
         IN IF first.success THEN first
            ELSE IF second.success THEN second
            ELSE [success |-> FALSE, issues |-> <<Issue("invalid_union", <<>>)>>]

\* A handleResponse that falls back to the content as a string when the
\* validation fails.
ValidateResultLenient(schema, content) ==
  [ok |-> TRUE, data |-> StrV(content), phase |-> "none"]

\* A handleResponse that parses the content as JSON before trying the raw
\* string (the two phases in the wrong order).
ValidateResultParseFirst(schema, content) ==
  IF schema = "none" THEN [ok |-> TRUE, data |-> StrV(content), phase |-> "none"]
  ELSE LET parsed == JSONParse(content)
           result == IF parsed.ok THEN safeParse(schema, parsed.v)
                     ELSE [success |-> FALSE, issues |-> <<>>]
           directResult == safeParse(schema, StrV(content))
       IN IF result.success
          THEN [ok |-> TRUE, data |-> result.data, phase |-> "parsed"]
          ELSE IF directResult.success
          THEN [ok |-> TRUE, data |-> directResult.data, phase |-> "direct"]
          ELSE [ok |-> FALSE,
                err |-> AgentError("Failed to parse response: Invalid JSON", NoError)]

\* The part of Agent.handleResponse (part_000) that turns the content of
\* the response into the result: direct validation of the raw string
\* first, then JSON.parse and validation of the parsed value.
ValidateResult(schema, content) ==
  IF schema = "none" THEN [ok |-> TRUE, data |-> StrV(content), phase |-> "none"]
  ELSE LET directResult == safeParse(schema, StrV(content))
       IN IF directResult.success
          THEN [ok |-> TRUE, data |-> directResult.data, phase |-> "direct"]
          ELSE LET parsed == JSONParse(content)
               IN IF ~parsed.ok
                  THEN [ok |-> FALSE,
                        err |-> AgentError("Failed to parse response: Invalid JSON", NoError)]
                  ELSE LET result == safeParse(schema, parsed.v)
                       IN IF result.success
                          THEN [ok |-> TRUE, data |-> result.data, phase |-> "parsed"]
                          ELSE [ok |-> FALSE,
                                err |-> [AgentError("Validation failed", NoError)
                                           EXCEPT !.issues = result.issues]]

(***************************************************************************)
(* The values and contents the validation is run on.                       *)
(***************************************************************************)
RECURSIVE SeqsUpTo(_, _)
\* The sequences over alphabet S of length at most n.
SeqsUpTo(S, n) ==
  IF n = 0 THEN {<<>>}
  ELSE LET shorter == SeqsUpTo(S, n - 1)
       IN shorter \cup {Append(q, c) : q \in shorter, c \in S}

Strings == SeqsUpTo({"a", "1"}, MaxStrLen) \cup {<<Quote>>}
Atoms == {StrV(x) : x \in Strings} \cup {NumV(1)}
Values ==
  Atoms \cup {EmptyObj}
        \cup {ObjV(k, v) : k \in {<<"a">>, <<"1">>}, v \in Atoms \cup {EmptyObj}}

Prefixes(t) == {SubSeq(t, 1, n) : n \in 0..Len(t)}

\* What the provider may answer: the JSON text of a value, a truncated
\* JSON text, or plain text.
Contents == UNION {Prefixes(Stringify(v)) : v \in Values} \cup Strings

ValidateInit ==
  /\ valSchema \in Schemas \cup {"none"}
  /\ valContent = <<>>
  /\ valDone = FALSE
  /\ valOut = ParseFail

\* A response with content c reaches the result validation.
HandleContent ==
  \E c \in Contents :
    /\ valContent' = c
    /\ valDone' = TRUE
    /\ valOut' = ValidateResult(valSchema, c)
    /\ UNCHANGED <<valSchema, exceptValidate>>

(***************************************************************************)
(* Agent (src/src/Agent.ts, src/unnamed/part_000): cost accounting.        *)
(* Money is counted in nano-dollars, so that the prices per token are      *)
(* whole numbers.                                                          *)
(***************************************************************************)
Variants == {"AgentTs", "AgentFn", "Part000"}
LoopVariant == "Part011"
LibVariant == "LibAgent"

ZeroCost ==
  [promptTokens |-> 0, completionTokens |-> 0, totalTokens |-> 0,
   inputCost |-> 0, outputCost |-> 0, totalCost |-> 0]

NoUsage ==
  [present |-> FALSE, prompt_tokens |-> 0, completion_tokens |-> 0, total_tokens |-> 0]
Usage(p, c) ==
  [present |-> TRUE, prompt_tokens |-> p, completion_tokens |-> c, total_tokens |-> p + c]

InputTokenPrice == 150          \* $0.150 per 1M input tokens
OutputTokenPrice == 600         \* $0.600 per 1M output tokens
EstimatedInputRate == 100000    \* $0.0001 per prompt token
EstimatedOutputRate == 200000   \* $0.0002 per completion token

\* calculateCost(model, inputTokens, outputTokens) for a priced model.
calculateCost(inputTokens, outputTokens) ==
  [inputCost |-> inputTokens * InputTokenPrice,
   outputCost |-> outputTokens * OutputTokenPrice,
   totalCost |-> inputTokens * InputTokenPrice + outputTokens * OutputTokenPrice]

\* What one reported usage adds to the totals, per variant.
Contribution(v, u) ==
  IF v = "AgentFn"
  THEN [promptTokens |-> u.prompt_tokens, completionTokens |-> u.completion_tokens,
        totalTokens |-> u.total_tokens, inputCost |-> 0, outputCost |-> 0,
        totalCost |-> u.prompt_tokens * EstimatedInputRate
                      + u.completion_tokens * EstimatedOutputRate]
  ELSE LET costs == calculateCost(u.prompt_tokens, u.completion_tokens)
       IN [promptTokens |-> u.prompt_tokens, completionTokens |-> u.completion_tokens,
           totalTokens |-> u.total_tokens, inputCost |-> costs.inputCost,
           outputCost |-> costs.outputCost, totalCost |-> costs.totalCost]

AddCost(a, b) ==
  [promptTokens |-> a.promptTokens + b.promptTokens,
   completionTokens |-> a.completionTokens + b.completionTokens,
   totalTokens |-> a.totalTokens + b.totalTokens,
   inputCost |-> a.inputCost + b.inputCost,
   outputCost |-> a.outputCost + b.outputCost,
   totalCost |-> a.totalCost + b.totalCost]

\* The "update cost tracking" block of handleResponse: the new this.cost,
\* and whether calculateCost threw (no price for the model).  The token
\* counts are assigned before calculateCost is called.
UpdateCost(v, c, u, priced) ==
  IF ~u.present THEN [cost |-> c, threw |-> FALSE]
  ELSE IF v = "AgentFn"
  THEN [cost |-> AddCost(c, Contribution(v, u)), threw |-> FALSE]
  ELSE LET tokens ==
             IF v = "AgentTs"
             THEN [c EXCEPT !.promptTokens = u.prompt_tokens,
                            !.completionTokens = u.completion_tokens,
                            !.totalTokens = u.total_tokens]
             ELSE [c EXCEPT !.promptTokens = @ + u.prompt_tokens,
                            !.completionTokens = @ + u.completion_tokens,
                            !.totalTokens = @ + u.total_tokens]
           costs == calculateCost(u.prompt_tokens, u.completion_tokens)
       IN IF ~priced THEN [cost |-> tokens, threw |-> TRUE]
          ELSE [cost |-> [tokens EXCEPT !.inputCost = costs.inputCost,
                                        !.outputCost = costs.outputCost,
                                        !.totalCost = costs.totalCost],
                threw |-> FALSE]

(***************************************************************************)
(* Agent: messages, validators, handleResponse.                            *)
(***************************************************************************)
Message(role, content) == [role |-> role, content |-> content]

SystemPrompts == << <<"S">> >>
UserPrompt == <<"p">>

RECURSIVE SystemTurns(_)
SystemTurns(prompts) ==
  IF prompts = <<>> THEN <<>>
  ELSE <<Message("system", Head(prompts))>> \o SystemTurns(Tail(prompts))

\* A dynamic system-prompt function, by what a call of it yields: text,
\* returned directly ("sync") or through a Promise ("async").
PromptFuncs == [mode : {"sync", "async"}, text : {<<"D">>, <<"E">>, <<>>}]

\* The test on what promptFunc() gave: typeof prompt === "string" in
\* Agent.ts (a Promise is no string), the awaited prompt being truthy in
\* part_000.
Contributes(v, f) ==
  IF v = "Part000" THEN f.text # <<>> ELSE f.mode = "sync"

RECURSIVE DynamicTurns(_, _)
\* "Add dynamic system prompts"
DynamicTurns(v, funcs) ==
  IF funcs = <<>> THEN <<>>
  ELSE (IF Contributes(v, Head(funcs)) THEN <<Message("system", Head(funcs).text)>>
        ELSE <<>>) \o DynamicTurns(v, Tail(funcs))

\* A message assembly that puts the history before the system prompts.
prepareMessagesHistoryFirst(v, systemPrompts, funcs, messageHistory, userPrompt) ==
  messageHistory \o SystemTurns(systemPrompts) \o DynamicTurns(v, funcs)
    \o <<Message("user", userPrompt)>>

\* Agent.prepareMessages: the system prompts, the dynamic system prompts,
\* the message history, the user prompt.
prepareMessages(v, systemPrompts, funcs, messageHistory, userPrompt) ==
  SystemTurns(systemPrompts) \o DynamicTurns(v, funcs) \o messageHistory
    \o <<Message("user", userPrompt)>>

\* What the registered tool returns.
ToolResult == StrV(<<"A">>)

RECURSIVE UpperChars(_)
UpperChars(x) ==
  IF x = <<>> THEN <<>>
  ELSE <<IF Head(x) = "a" THEN "A" ELSE Head(x)>> \o UpperChars(Tail(x))

\* The result validators of the tests: rejectWrong raises ModelRetry on a
\* result that includes the digit 1 ("wrong"), upper returns
\* result.toUpperCase(), suffix returns result.concat("a"); each calls a
\* string method, a TypeError on a result that is not a string.
ApplyValidator(name, data) ==
  IF data.t # "str"
  THEN [ok |-> FALSE, err |-> Err("Error", "TypeError")]
  ELSE IF name = "rejectWrong"
  THEN IF \E k \in 1..Len(data.s) : data.s[k] = "1"
       THEN [ok |-> FALSE, err |-> ModelRetry("Invalid response")]
       ELSE [ok |-> TRUE, data |-> data]
  ELSE IF name = "suffix"
  THEN [ok |-> TRUE, data |-> StrV(Append(data.s, "a"))]
  ELSE [ok |-> TRUE, data |-> StrV(UpperChars(data.s))]

RECURSIVE RunValidatorsReversed(_, _)
\* The validators applied from the last registered to the first.
RunValidatorsReversed(validators, data) ==
  IF validators = <<>> THEN [ok |-> TRUE, data |-> data]
  ELSE LET r == ApplyValidator(validators[Len(validators)], data)
       IN IF r.ok
          THEN RunValidatorsReversed(SubSeq(validators, 1, Len(validators) - 1), r.data)
          ELSE r

RECURSIVE RunValidators(_, _)
\* for (const validator of this.resultValidators) result = await validator(result)
RunValidators(validators, data) ==
  IF validators = <<>> THEN [ok |-> TRUE, data |-> data]
  ELSE LET r == ApplyValidator(Head(validators), data)
       IN IF r.ok THEN RunValidators(Tail(validators), r.data) ELSE r

\* What one attempt of run comes to: it returns data, throws err into the
\* catch of the retry loop, or (part_000) returns this.run(...) from the
\* catch around the validators; with this.cost, the tool budgets and
\* currentRetry as the attempt leaves them, and how it ended (cls).
Res(out, data, err, c, tr, cur, cls) ==
  [out |-> out, data |-> data, err |-> err, cost |-> c, toolRetries |-> tr,
   cur |-> cur, cls |-> cls]

\* JSON.parse(arguments) and tool.func(args): the error thrown, NoError
\* when the handler returns.
ToolFailure(resp) ==
  IF resp.how = "badArgs" THEN Err("SyntaxError", "Unexpected token")
  ELSE IF resp.how = "throws" THEN Err("Error", "tool failed")
  ELSE IF resp.how = "throwsNonError" THEN NonError
  ELSE NoError

\* Agent.handleResponse of src/src/Agent.ts (both classes), on a response
\* with a message.
HandleResponseTs(v, resp, c, tr, cur, registered, validators, priced) ==
  LET cu == UpdateCost(v, c, resp.usage, priced)
  IN IF cu.threw
     THEN Res("throw", Undefined, Err("Error", "Pricing not found"), cu.cost, tr, cur,
              "pricing")
     ELSE IF resp.kind = "tool"
     THEN IF resp.name \notin registered
          THEN Res("throw", Undefined, AgentError("Unknown tool", NoError), cu.cost, tr,
                   cur, "toolmissing")
          ELSE IF ToolFailure(resp) = NoError
          THEN Res("return", ToolResult, NoError, cu.cost, tr, cur, "ok")
          ELSE IF tr[resp.name] > 0
          THEN Res("throw", Undefined, ModelRetry("Tool retry"), cu.cost,
                   [tr EXCEPT ![resp.name] = @ - 1], cur, "toolretry")
          ELSE Res("throw", Undefined, ToolFailure(resp), cu.cost, tr, cur, "toolfail")
     ELSE LET vr == RunValidators(validators, StrV(resp.content))
          IN IF vr.ok THEN Res("return", vr.data, NoError, cu.cost, tr, cur, "ok")
             ELSE Res("throw", Undefined, vr.err, cu.cost, tr, cur,
                      IF vr.err.kind = "ModelRetry" THEN "retry" ELSE "validatorerror")

\* currentRetry < maxResultRetries
CanRetryResult(cur, max) == cur < max

\* Agent.handleResponse of part_000 followed by the "run result
\* validators" block of its run.
HandleResponse000(resp, c, tr, cur, max, registered, validators, schema, priced) ==
  LET cu == IF resp.kind = "tool" THEN [cost |-> c, threw |-> FALSE]
            ELSE UpdateCost("Part000", c, resp.usage, priced)
      vres == IF resp.kind = "tool" THEN [ok |-> TRUE, data |-> ToolResult]
              ELSE ValidateResult(schema, resp.content)
      vr == RunValidators(validators, vres.data)
  IN IF resp.kind = "tool" /\ resp.name \notin registered
     THEN Res("throw", Undefined, AgentError("Tool not found", NoError), c, tr, cur,
              "toolmissing")
     ELSE IF resp.kind = "tool" /\ ToolFailure(resp) # NoError
     THEN Res("throw", Undefined, ToolFailure(resp), c, tr, cur, "toolfail")
     ELSE IF cu.threw
     THEN Res("throw", Undefined, Err("Error", "Pricing not found"), cu.cost, tr, cur,
              "pricing")
     ELSE IF ~vres.ok
     THEN Res("throw", Undefined, vres.err, cu.cost, tr, cur,
              IF vres.err.issues = <<>> THEN "parse" ELSE "validation")
     ELSE IF vr.ok
     THEN Res("return", vr.data, NoError, cu.cost, tr, cur, "ok")
     ELSE IF vr.err.kind = "ModelRetry" /\ CanRetryResult(cur, max)
     THEN Res("rerun", Undefined, vr.err, cu.cost, tr, cur + 1, "retry")
     ELSE Res("throw", Undefined, vr.err, cu.cost, tr, cur,
              IF vr.err.kind = "ModelRetry" THEN "retry" ELSE "validatorerror")

(***************************************************************************)
(* Agent.run as a state machine.  One step is one pass of the retry loop:  *)
(* the transport call, handleResponse, and the catch blocks the outcome    *)
(* goes through; the backoff timer is a step of its own.                   *)
(***************************************************************************)
NoOutcome == [kind |-> "none"]
Returned(msgs, data, c) == [kind |-> "returned", messages |-> msgs, data |-> data, cost |-> c]
Raised(err) == [kind |-> "raised", error |-> err]

\* A retry loop that never backs off: the first failure is rethrown.
NoBackoff(idx, retries) == FALSE

\* A loop that backs off after its last configured pass too.
BackoffOnceMore(idx, retries) == idx < retries

\* i < this.defaultRetries - 1
ShouldBackoff(idx, retries) == idx < retries - 1

BackoffBase == 1000
\* A delay counted from the 0-based index of the attempt.
BackoffDelayZeroBased(idx) == BackoffBase * idx

\* setTimeout(resolve, 1000 * (i + 1))
BackoffDelay(idx) == BackoffBase * (idx + 1)

\* An outer catch that rethrows what it caught.
FinalErrorRethrown(v, err) == err

\* The outer catch of run: what is raised to the caller for the error err.
FinalError(v, err) ==
  IF v = "Part000"
  THEN IF err.kind = "AgentError" THEN err
       ELSE AgentError("Failed to chat with OpenAI", err)
  ELSE IF IsErrorObject(err) THEN AgentError("Failed to chat with OpenAI", err)
       ELSE AgentError("An unknown error occurred", NoError)

\* "Reset tool retries": tool.retries = this.defaultRetries for every tool.
ResetToolRetries(registered, retries) == [t \in registered |-> retries]

\* No tool was called; the budgets are tr.
NoToolCall(tr) == [how |-> "none", calls |-> 0, before |-> tr, after |-> tr]

ValidatorLists == {<<>>, <<"rejectWrong", "upper", "suffix">>}

AgentContents ==
  { <<"a">>, <<"1">>, <<"{">>,
    Stringify(ObjV(<<"a">>, StrV(<<"a">>))), Stringify(ObjV(<<"a">>, NumV(1))) }

ToolNames == {"t", "u"}
ToolBehaviours == {"returns", "badArgs", "throws", "throwsNonError"}

AgentConfigs(vs, uss) ==
  /\ variant \in vs
  /\ defaultRetries \in 1..MaxRetries
  /\ maxResultRetries \in 0..MaxResultRetries
  /\ tools \in {{}, {"t"}}
  /\ resultValidators \in ValidatorLists
  /\ resultType \in IF variant = "Part000" THEN {"none", "city"} ELSE {"none"}
  /\ modelPriced \in IF variant = "AgentFn" THEN {TRUE} ELSE BOOLEAN
  /\ usages \in IF modelPriced THEN uss ELSE uss \ {{NoUsage}}

\* The agent as its constructor leaves it (tools and validators registered).
AgentFresh ==
  /\ currentRetry = 0
  /\ toolRetries = ResetToolRetries(tools, defaultRetries)
  /\ cost = ZeroCost
  /\ lastRunMessages = <<>>
  /\ pc = "idle"
  /\ i = 0
  /\ slept = 0
  /\ outcome = NoOutcome
  /\ attempts = 0
  /\ runs = 0
  /\ retryAtStart = 0
  /\ lastCls = "none"
  /\ lastContent = <<>>
  /\ lastTool = NoToolCall(ResetToolRetries(tools, defaultRetries))
  /\ only = "none"
  /\ origError = NoError
  /\ expected = ZeroCost
  /\ simple = TRUE
  /\ loopPc = "idle"
  /\ transcript = <<>>
  /\ loopCount = 0
  /\ loopOutcome = NoOutcome
  /\ loopHistory = <<>>
  /\ completionOrder = <<>>

\* The configurations of the tool-loop Agents of part_011 and lib/agent.ts:
\* the tools and the responseSchema (part_011 only); they have no retries,
\* validators or cost accounting.
LoopConfigs ==
  /\ variant \in {LoopVariant, LibVariant}
  /\ defaultRetries = 1
  /\ maxResultRetries = 0
  /\ tools \in {{}, {"t"}}
  /\ resultValidators = <<>>
  /\ resultType \in IF variant = LoopVariant THEN {"none", "city"} ELSE {"none"}
  /\ modelPriced = TRUE
  /\ usages = {NoUsage}

AgentInit ==
  (AgentConfigs(Variants, {{NoUsage}, {Usage(1, 2)}}) \/ LoopConfigs) /\ AgentFresh

\* agent.run(userPrompt) is called: prepareMessages, reset of the tool
\* budgets, i = 0.
StartRun ==
  /\ variant \in Variants
  /\ pc \in {"idle", "done"}
  /\ runs < MaxRuns
  /\ runs' = runs + 1
  /\ retryAtStart' = currentRetry
  /\ attempts' = 0
  /\ only' = "none"
  /\ lastCls' = "none"
  /\ lastContent' = <<>>
  /\ lastTool' = NoToolCall(ResetToolRetries(tools, defaultRetries))
  /\ outcome' = NoOutcome
  /\ origError' = NoError
  /\ lastRunMessages' = prepareMessages(variant, SystemPrompts, <<>>, <<>>, UserPrompt)
  /\ toolRetries' = ResetToolRetries(tools, defaultRetries)
  /\ i' = 0
  /\ slept' = 0
  /\ pc' = "attempt"
  /\ UNCHANGED <<configVars, currentRetry, cost, expected, simple, loopVars, exceptAgent>>

\* The rest of the loop pass once the attempt came to res, u being the
\* usage, content the content and how the tool call of the response: the catch of the loop (backoff or rethrow),
\* the outer catch (rerun on ModelRetry within the budget, or raise), the
\* return.
Settle(res, u, content, tc) ==
  LET backoff == res.out = "throw" /\ ShouldBackoff(i, defaultRetries)
      outer == res.out = "throw" /\ ~backoff
      rerunOuter == /\ outer
                    /\ res.err.kind = "ModelRetry"
                    /\ CanRetryResult(res.cur, maxResultRetries)
      rerun == res.out = "rerun" \/ rerunOuter
      raised == outer /\ ~rerunOuter
  IN /\ cost' = res.cost
     /\ currentRetry' = IF rerunOuter THEN res.cur + 1 ELSE res.cur
     /\ toolRetries' = IF rerun THEN ResetToolRetries(tools, defaultRetries)
                       ELSE res.toolRetries
     /\ lastRunMessages' = IF rerun THEN prepareMessages(variant, SystemPrompts, <<>>, <<>>, UserPrompt)
                           ELSE lastRunMessages
     /\ i' = IF rerun THEN 0 ELSE i
     /\ slept' = IF backoff THEN BackoffDelay(i) ELSE 0
     /\ pc' = IF rerun THEN "attempt" ELSE IF backoff THEN "backoff" ELSE "done"
     /\ outcome' = IF res.out = "return"
                   THEN Returned(lastRunMessages, res.data, res.cost.totalCost)
                   ELSE IF raised THEN Raised(FinalError(variant, res.err))
                   ELSE outcome
     /\ origError' = IF raised THEN res.err ELSE origError
     /\ attempts' = attempts + 1
     /\ lastCls' = res.cls
     /\ lastContent' = content
     /\ lastTool' = [how |-> tc.how, calls |-> tc.calls,
                      before |-> toolRetries, after |-> res.toolRetries]
     /\ only' = IF only \in {"none", res.cls} THEN res.cls ELSE "mixed"
     /\ expected' = IF u.present /\ (variant = "AgentFn" \/ modelPriced)
                    THEN AddCost(expected, Contribution(variant, u)) ELSE expected
     /\ simple' = (simple /\ res.out = "return" /\ res.cls = "content" /\ u.present)
     /\ UNCHANGED <<configVars, runs, retryAtStart, loopVars, exceptAgent>>

\* A response without tool calls, for the history of tool calls.
NoCalls == [how |-> "none", calls |-> 0]

\* const toolCall = message.tool_calls[0]: the one call that is handled.
FirstToolCall(tool_calls) == tool_calls[1]

\* chat.completions.create rejects.
TransportThrows ==
  /\ pc = "attempt"
  /\ \E e \in {Err("Error", "network"), NonError} :
       Settle(Res("throw", Undefined, [e EXCEPT !.at = attempts + 1], cost, toolRetries,
                  currentRetry,
                  IF IsErrorObject(e) THEN "transport" ELSE "transportNonError"),
              NoUsage, <<>>, NoCalls)

\* create resolves with an empty object.
EmptyResponse ==
  /\ pc = "attempt"
  /\ Settle(Res("throw", Undefined,
                AgentError(IF variant = "AgentFn"
                           THEN "Invalid response from OpenAI: missing choices"
                           ELSE "Empty response from OpenAI API", NoError),
                cost, toolRetries, currentRetry, "empty"), NoUsage, <<>>, NoCalls)

\* What handleResponse (and, in part_000, the validators block) make of resp.
Handle(resp) ==
  IF variant = "Part000"
  THEN HandleResponse000(resp, cost, toolRetries, currentRetry, maxResultRetries, tools,
                         resultValidators, resultType, modelPriced)
  ELSE HandleResponseTs(variant, resp, cost, toolRetries, currentRetry, tools,
                        resultValidators, modelPriced)

\* create resolves with a message that carries content.
ContentResponse ==
  /\ pc = "attempt"
  /\ \E c \in AgentContents, u \in usages :
       LET res == Handle([kind |-> "content", content |-> c, usage |-> u])
       IN Settle([res EXCEPT !.cls = IF @ = "ok" THEN "content" ELSE @], u, c, NoCalls)

\* The tool_calls arrays sent to the Agent: one call of any tool and
\* behaviour, or up to MaxToolCalls calls of the tool "t" that go through.
AgentCallLists ==
  { <<c>> : c \in [name : ToolNames, how : ToolBehaviours] }
  \cup { [k \in 1..n |-> [name |-> "t", how |-> "returns"]] : n \in 2..MaxToolCalls }

\* create resolves with a message that carries tool calls.
ToolCallResponse ==
  /\ pc = "attempt"
  /\ \E tool_calls \in AgentCallLists, u \in usages :
       LET toolCall == FirstToolCall(tool_calls)
           res == Handle([kind |-> "tool", name |-> toolCall.name, how |-> toolCall.how,
                          usage |-> u])
       IN Settle([res EXCEPT !.cls = IF @ = "ok" THEN "tool" ELSE @], u, <<>>,
                 [how |-> IF toolCall.name \in tools THEN toolCall.how ELSE "none",
                  calls |-> Len(tool_calls)])

\* The backoff timer fires: continue with the next pass of the loop.
Backoff ==
  /\ pc = "backoff"
  /\ pc' = "attempt"
  /\ i' = i + 1
  /\ UNCHANGED <<configVars, currentRetry, toolRetries, cost, lastRunMessages, slept,
                 outcome, attempts, runs, retryAtStart, lastCls, lastContent, lastTool, only,
                 origError, expected, simple, loopVars, exceptAgent>>

(***************************************************************************)
(* Agent.run of part_011: the tool loop.  One step is one pass of the      *)
(* while loop: the transport call and what run does with the response.     *)
(***************************************************************************)
\* The assistant message of a response that carries tool calls.
ToolCallMessage(calls) == [role |-> "assistant", content |-> <<>>, tool_calls |-> calls]

\* A tool message whose content is the result as it is, not its JSON text.
ToolMessageRaw(id, result) ==
  [role |-> "tool", content |-> result.s, tool_call_id |-> id]

\* { role: "tool", content: JSON.stringify(result), tool_call_id: toolCall.id }
ToolMessage(id, result) ==
  [role |-> "tool", content |-> Stringify(result), tool_call_id |-> id]

\* What JSON.parse(arguments) and tool.function(args) throw for a call.
CallFailure(call) ==
  IF call.how = "badArgs" THEN Err("SyntaxError", "Unexpected token")
  ELSE IF call.how = "throws" THEN Err("Error", "tool failed")
  ELSE NoError

RECURSIVE ExecuteToolCalls(_, _, _)
\* for (const toolCall of response.message.tool_calls): the messages pushed
\* and the error thrown (NoError when every call went through).
ExecuteToolCalls(calls, registered, msgs) ==
  IF calls = <<>> THEN [messages |-> msgs, err |-> NoError]
  ELSE LET call == Head(calls)
       IN IF call.name \notin registered
          THEN [messages |-> msgs, err |-> Err("Error", "Tool not found")]
          ELSE IF CallFailure(call) # NoError
          THEN [messages |-> msgs,
                err |-> [Err("Error", "Failed to execute tool")
                           EXCEPT !.cause = CallFailure(call)]]
          ELSE ExecuteToolCalls(Tail(calls), registered,
                                Append(msgs, ToolMessage(call.id, ToolResult)))

\* One task of message.tool_calls.map(async ...): the tool message it
\* resolves with, an error text for a missing tool or a failed handler.
LibToolTask(call, registered) ==
  [role |-> "tool",
   content |-> IF call.name \notin registered THEN <<"E", "1">>
               ELSE IF CallFailure(call) # NoError THEN <<"E", "2">>
               ELSE ToolResult.s,
   tool_call_id |-> call.id]

\* The tasks as they settle: order[j] is the index of the j-th to complete.
Completed(calls, registered, order) ==
  [j \in 1..Len(calls) |->
     [index |-> order[j], message |-> LibToolTask(calls[order[j]], registered)]]

\* The results listed as the tasks completed.
PromiseAllAsCompleted(completed) ==
  [j \in 1..Len(completed) |-> completed[j].message]

\* await Promise.all(toolTasks): the value of every task at the index of
\* the task.
PromiseAll(completed) ==
  [k \in 1..Len(completed) |->
     completed[CHOOSE j \in 1..Len(completed) : completed[j].index = k].message]

\* The orders n tasks can complete in.
CompletionOrders(n) ==
  { f \in [1..n -> 1..n] : \A a, b \in 1..n : f[a] = f[b] => a = b }

\* The end of run of lib/agent.ts for content: success with the parsed
\* content, or the failure the outer catch turns the SyntaxError into.
LibResult(content) ==
  LET parsed == JSONParse(content)
  IN IF ~parsed.ok
     THEN [kind |-> "returned",
           data |-> [success |-> FALSE, error |-> "Failed to parse final response"]]
     ELSE [kind |-> "returned", data |-> [success |-> TRUE, data |-> parsed.v]]

\* The end of run for content: the data returned, or the error thrown.
LoopResult(schema, content) ==
  IF content = <<>> THEN Raised(Err("Error", "No content in response"))
  ELSE IF schema = "none" THEN [kind |-> "returned", data |-> StrV(content)]
  ELSE LET parsedResponse == safeParse(schema, safeJSONParse(content))
       IN IF parsedResponse.success
          THEN [kind |-> "returned", data |-> parsedResponse.data]
          ELSE Raised(Err("Error", "Response validation failed"))

CallHows == {"returns", "badArgs", "throws"}

\* The tool_calls arrays of a response, the ids telling the calls apart.
ToolCallLists ==
  UNION { { [k \in 1..n |-> [name |-> f[k].name, how |-> f[k].how, id |-> k]] :
            f \in [1..n -> [name : ToolNames, how : CallHows]] } :
          n \in 1..MaxToolCalls }

\* The tool_calls arrays sent to the Agent of lib/agent.ts: the empty array,
\* or calls of the tool "t" that go through, but for one call of any tool
\* and behaviour.
LibCallLists ==
  {<<>>} \cup
  UNION { { [k \in 1..n |-> IF k = p THEN [name |-> c.name, how |-> c.how, id |-> k]
                            ELSE [name |-> "t", how |-> "returns", id |-> k]] :
            p \in 1..n, c \in [name : ToolNames, how : {"returns", "throws"}] } :
          n \in 1..MaxToolCalls }

\* run(prompt) is called: messages = [system, user].
LoopStart ==
  /\ variant \in {LoopVariant, LibVariant}
  /\ loopPc = "idle"
  /\ loopPc' = "calling"
  /\ transcript' = prepareMessages(variant, SystemPrompts, <<>>, <<>>, UserPrompt)
  /\ UNCHANGED <<loopCount, loopOutcome, loopHistory, completionOrder,
                 configVars, runVars, exceptAgent>>

\* create rejects: nothing catches the error in part_011; the outer catch
\* of lib/agent.ts returns a failure result.
LoopTransportThrows ==
  /\ loopPc = "calling"
  /\ loopCount' = loopCount + 1
  /\ loopOutcome' = IF variant = LibVariant
                    THEN [kind |-> "returned",
                          data |-> [success |-> FALSE, error |-> "network"]]
                    ELSE Raised(Err("Error", "network"))
  /\ loopHistory' = Append(loopHistory, "rejected")
  /\ loopPc' = "done"
  /\ UNCHANGED <<transcript, completionOrder, configVars, runVars, exceptAgent>>

\* create resolves with tool calls: push the assistant message, execute
\* the calls in order, continue.
LoopToolCalls ==
  /\ variant = LoopVariant
  /\ loopPc = "calling"
  /\ loopCount < MaxLoop
  /\ \E calls \in ToolCallLists :
       LET done == ExecuteToolCalls(calls, tools, Append(transcript, ToolCallMessage(calls)))
       IN /\ transcript' = done.messages
          /\ loopOutcome' = IF done.err = NoError THEN loopOutcome ELSE Raised(done.err)
          /\ loopPc' = IF done.err = NoError THEN "calling" ELSE "done"
          /\ loopHistory' = Append(loopHistory, IF Len(calls) = 1 THEN "tool" ELSE "tools")
          /\ completionOrder' = [k \in 1..(Len(done.messages) - Len(transcript) - 1) |-> k]
  /\ loopCount' = loopCount + 1
  /\ UNCHANGED <<configVars, runVars, exceptAgent>>

\* create of lib/agent.ts resolves with tool calls: start every task, push
\* the assistant message, await all the tasks (they complete in any order),
\* push their results, continue.
LibToolCalls ==
  /\ variant = LibVariant
  /\ loopPc = "calling"
  /\ loopCount < MaxLibLoop
  /\ \E calls \in LibCallLists :
       \E order \in CompletionOrders(Len(calls)) :
         /\ transcript' = Append(transcript, ToolCallMessage(calls))
                            \o PromiseAll(Completed(calls, tools, order))
         /\ loopHistory' = Append(loopHistory, IF Len(calls) = 0 THEN "nocalls"
                                               ELSE IF Len(calls) = 1 THEN "tool"
                                               ELSE "tools")
         /\ completionOrder' = order
  /\ loopCount' = loopCount + 1
  /\ UNCHANGED <<loopPc, loopOutcome, configVars, runVars, exceptAgent>>

\* create resolves with content (<<>>: null or the empty string): push the
\* message, validate, return.
LoopContent ==
  /\ loopPc = "calling"
  /\ variant = LoopVariant
  /\ \E c \in AgentContents \cup {<<>>} :
       /\ transcript' = Append(transcript, Message("assistant", c))
       /\ loopOutcome' = LoopResult(resultType, c)
  /\ loopCount' = loopCount + 1
  /\ loopHistory' = Append(loopHistory, "content")
  /\ loopPc' = "done"
  /\ UNCHANGED <<completionOrder, configVars, runVars, exceptAgent>>

\* create of lib/agent.ts resolves with content: the local messages are
\* left as they are, the parsed content is returned.
LibContent ==
  /\ loopPc = "calling"
  /\ variant = LibVariant
  /\ \E c \in AgentContents : loopOutcome' = LibResult(c)
  /\ loopCount' = loopCount + 1
  /\ loopHistory' = Append(loopHistory, "content")
  /\ loopPc' = "done"
  /\ UNCHANGED <<transcript, completionOrder, configVars, runVars, exceptAgent>>

AgentNext ==
  \/ StartRun \/ TransportThrows \/ EmptyResponse \/ ContentResponse
  \/ ToolCallResponse \/ Backoff
  \/ LoopStart \/ LoopTransportThrows \/ LoopToolCalls \/ LoopContent
  \/ LibToolCalls \/ LibContent

(***************************************************************************)
(* Message assembly on its own: prepareMessages applied to the prompts of  *)
(* an Agent, a message history and a user prompt.                          *)
(***************************************************************************)
PromptTexts == {<<"S">>, <<"T">>}

Histories ==
  { <<>>,
    <<Message("user", <<"h">>), Message("assistant", <<"r">>)>>,
    <<Message("system", <<"S">>)>> }

AssemblyInit ==
  /\ asmIn \in [variant : Variants,
                systemPrompts : SeqsUpTo(PromptTexts, MaxPrompts),
                systemPromptFunctions : SeqsUpTo(PromptFuncs, MaxPrompts),
                messageHistory : Histories,
                userPrompt : {UserPrompt}]
  /\ asmOut = [done |-> FALSE, messages |-> <<>>]

Assemble ==
  /\ ~asmOut.done
  /\ asmOut' = [done |-> TRUE,
                messages |-> prepareMessages(asmIn.variant, asmIn.systemPrompts,
                                             asmIn.systemPromptFunctions,
                                             asmIn.messageHistory, asmIn.userPrompt)]
  /\ UNCHANGED <<asmIn, exceptAssembly>>

(***************************************************************************)
(* Credential resolution (part_000): the constructor argument, the         *)
(* process-wide AgentConfig, the environment variable.  A credential is    *)
(* "absent" (undefined), "empty" (the empty string) or a key.              *)
(***************************************************************************)
Keys == {"ka", "kb", "kc"}
Credentials == {"absent", "empty"} \cup Keys

\* JavaScript truthiness of a credential value.
Truthy(k) == k \notin {"absent", "empty"}

\* An AgentConfig.getApiKey that prefers the environment variable.
getApiKeyEnvFirst(holder, env) == IF Truthy(env) THEN env ELSE holder

\* AgentConfig.getApiKey: this._apiKey || process.env.OPENAI_API_KEY
getApiKey(holder, env) == IF Truthy(holder) THEN holder ELSE env

\* options.apiKey || AgentConfig.getInstance().getApiKey()
ResolveApiKey(explicit, holder, env) ==
  IF Truthy(explicit) THEN explicit ELSE getApiKey(holder, env)

NotConstructed == [status |-> "none", apiKey |-> "absent", error |-> NoError]

CredentialsInit ==
  /\ holderKey = "absent"
  /\ envKey \in Credentials
  /\ credAgent = NotConstructed
  /\ credSeen = [explicit |-> "absent", holder |-> "absent", env |-> "absent"]
  /\ dispatchedKey = "absent"

\* AgentConfig.getInstance().setApiKey(apiKey)
SetApiKey ==
  \E k \in Credentials \ {"absent"} :
    /\ holderKey' = k
    /\ UNCHANGED <<envKey, credAgent, credSeen, dispatchedKey, exceptCredentials>>

\* new Agent({ apiKey: explicit, ... })
Construct ==
  \E explicit \in Credentials :
    LET apiKey == ResolveApiKey(explicit, holderKey, envKey)
    IN /\ credAgent.status = "none"
       /\ credAgent' =
            IF ~Truthy(apiKey)
            THEN [status |-> "threw", apiKey |-> "absent",
                  error |-> AgentError("OpenAI API key is required", NoError)]
            ELSE [status |-> "created", apiKey |-> apiKey, error |-> NoError]
       /\ credSeen' = [explicit |-> explicit, holder |-> holderKey, env |-> envKey]
       /\ UNCHANGED <<holderKey, envKey, dispatchedKey, exceptCredentials>>

\* A transport call of the constructed Agent, through its client.
Dispatch ==
  /\ credAgent.status = "created"
  /\ dispatchedKey = "absent"
  /\ dispatchedKey' = credAgent.apiKey
  /\ UNCHANGED <<holderKey, envKey, credAgent, credSeen, exceptCredentials>>

(***************************************************************************)
(* Agent.runStream: one step is the transport call or one chunk of the     *)
(* stream it resolved with.                                                *)
(***************************************************************************)
\* The chunks of a transport stream: a text delta (its text may be empty),
\* a tool-call delta, which has no content, and a chunk without choices.
Chunks ==
  [kind : {"text"}, content : {<<"a">>, <<"1">>, <<>>}]
  \cup [kind : {"toolcall", "nochoices"}, content : {<<>>}]

\* chunk.choices[0]?.delta?.content
DeltaContent(chunk) ==
  IF chunk.kind = "text" THEN StrV(chunk.content) ELSE Undefined

\* A filter that lets every string through, the empty one too.
YieldsEveryString(chunk) == DeltaContent(chunk).t = "str"

\* if (content): the chunk makes runStream yield.
Yields(chunk) ==
  LET content == DeltaContent(chunk)
  IN content.t = "str" /\ content.s # <<>>

\* The Agents runStream is called on: validators and, in part_000, a
\* resultType are registered.
StreamAgents ==
  /\ variant \in Variants
  /\ defaultRetries = MaxRetries
  /\ maxResultRetries = MaxResultRetries
  /\ tools \in {{}, {"t"}}
  /\ resultValidators = <<"rejectWrong", "upper", "suffix">>
  /\ resultType = IF variant = "Part000" THEN "city" ELSE "none"
  /\ modelPriced = TRUE
  /\ usages = {NoUsage}

\* The consumer asks for the first fragment: the messages are prepared and
\* create({stream: true}) resolves with a stream.
StreamOpen ==
  /\ streamPc = "idle"
  /\ lastRunMessages' = prepareMessages(variant, SystemPrompts, <<>>, <<>>, UserPrompt)
  /\ streamCalls' = streamCalls + 1
  /\ streamPc' = "open"
  /\ UNCHANGED <<arrived, yielded, configVars, runVarsButMessages, loopVars, exceptStream>>

\* create({stream: true}) rejects: the error reaches the consumer.
StreamRejects ==
  /\ streamPc = "idle"
  /\ lastRunMessages' = prepareMessages(variant, SystemPrompts, <<>>, <<>>, UserPrompt)
  /\ streamCalls' = streamCalls + 1
  /\ streamPc' = "raised"
  /\ UNCHANGED <<arrived, yielded, configVars, runVarsButMessages, loopVars, exceptStream>>

\* for await (const chunk of stream): one chunk arrives.
StreamChunk ==
  /\ streamPc = "open"
  /\ Len(arrived) < MaxChunks
  /\ \E chunk \in Chunks :
       /\ arrived' = Append(arrived, chunk)
       /\ yielded' = IF Yields(chunk) THEN Append(yielded, DeltaContent(chunk).s)
                     ELSE yielded
  /\ UNCHANGED <<streamPc, streamCalls, agentVars, exceptStream>>

\* The stream ends: runStream returns.
StreamEnds ==
  /\ streamPc = "open"
  /\ streamPc' = "done"
  /\ UNCHANGED <<arrived, yielded, streamCalls, agentVars, exceptStream>>

\* The stream fails: the error reaches the consumer.
StreamBreaks ==
  /\ streamPc = "open"
  /\ streamPc' = "raised"
  /\ UNCHANGED <<arrived, yielded, streamCalls, agentVars, exceptStream>>

(***************************************************************************)
(* The tools of an Agent: registerTool and the lookup of a tool call.  The *)
(* Agent of Agent.ts keeps a Map by name, the Agent of part_000 an array,  *)
(* the Agent of lib/agent.ts fills a Map in its constructor.               *)
(***************************************************************************)
RegVariants == {"AgentTs", "Part000", LibVariant}
Handlers == {"f", "g"}
\* The retries a tool is registered with: none of its own (undefined, here
\* -1), or a value that is not the default of the Agent.
NoRetries == -1
OwnRetries == {NoRetries, MaxRetries + 1}
Tools == [name : ToolNames, handler : Handlers, retries : OwnRetries]

\* { ...tool, retries: tool.retries ?? this.defaultRetries }
WithRetries(tool, default) ==
  [tool EXCEPT !.retries = IF tool.retries = NoRetries THEN default ELSE tool.retries]

\* for (const tool of this.tools.values()) tool.retries = this.defaultRetries
ResetRetries(reg, default) ==
  [k \in 1..Len(reg) |-> [reg[k] EXCEPT !.retries = default]]

\* The places of the tools named name in the registered tools reg.
PlacesOf(reg, name) == { k \in 1..Len(reg) : reg[k].name = name }

\* Map.prototype.set: the value of an existing key is replaced where the key
\* is, a new key is added at the end.
MapSet(reg, tool) ==
  IF PlacesOf(reg, tool.name) = {}
  THEN Append(reg, tool)
  ELSE [k \in 1..Len(reg) |-> IF reg[k].name = tool.name THEN tool ELSE reg[k]]

\* Map.prototype.get, and Array.prototype.find on the name: the first tool
\* of that name, NoTool when there is none.
NoTool == [name |-> "none", handler |-> "none", retries |-> NoRetries]
Lookup(reg, name) ==
  IF PlacesOf(reg, name) = {} THEN NoTool
  ELSE reg[CHOOSE k \in PlacesOf(reg, name) : \A j \in PlacesOf(reg, name) : k <= j]

\* No tool call yet; a call records how many registrations came before it.
NoCall == [name |-> "none", handler |-> "none", after |-> 0]

RegistryInit ==
  /\ regVariant \in RegVariants
  /\ registry = <<>>
  /\ registrations = <<>>
  /\ regThrew = FALSE
  /\ lastCall = NoCall
  /\ regDefault \in 1..MaxRetries
  /\ atRunStart = FALSE

\* registerTool(tool), which stores the tool with its retries or the default
\* of the Agent; in lib/agent.ts one pass of config.tools.forEach of
\* the constructor, which throws for a name it has seen.
RegisterTool ==
  /\ ~regThrew
  /\ Len(registrations) < MaxRegistered
  /\ \E tool \in Tools :
       /\ registrations' = Append(registrations, tool)
       /\ regThrew' = (regVariant = LibVariant /\ PlacesOf(registry, tool.name) # {})
       /\ registry' = IF regVariant = "Part000"
                      THEN Append(registry, WithRetries(tool, regDefault))
                      ELSE IF regThrew' THEN registry
                      ELSE IF regVariant = LibVariant THEN MapSet(registry, tool)
                      ELSE MapSet(registry, WithRetries(tool, regDefault))
  /\ atRunStart' = FALSE
  /\ UNCHANGED <<regVariant, lastCall, regDefault, exceptRegistry>>

\* A response carries a call of the tool named name: the handler found for
\* it is invoked.
CallTool ==
  /\ ~regThrew
  /\ \E name \in ToolNames :
       lastCall' = [name |-> name, handler |-> Lookup(registry, name).handler,
                    after |-> Len(registrations)]
  /\ atRunStart' = FALSE
  /\ UNCHANGED <<regVariant, registry, registrations, regThrew, regDefault,
                 exceptRegistry>>

\* run(userPrompt) of Agent.ts and part_000 begins: the budget of every
\* registered tool is reset.
RegRunStart ==
  /\ regVariant \in {"AgentTs", "Part000"}
  /\ ~atRunStart
  /\ registry' = ResetRetries(registry, regDefault)
  /\ atRunStart' = TRUE
  /\ UNCHANGED <<regVariant, registrations, regThrew, lastCall, regDefault,
                 exceptRegistry>>

(***************************************************************************)
(* The Agents with cross-call memory: Agent.run of src/agent.ts (its own   *)
(* memoryMessages) and of part_012 (a Memory).  One step is one run.       *)
(***************************************************************************)
CrossVariants == {"SrcAgent", "Part012"}
DefaultMaxMemory == 10
DefaultMockData == <<"m">>

\* What the constructor leaves in the memory: part_012 adds the system
\* prompt, src/agent.ts nothing.
CrossFreshMemory(v) ==
  IF v = "Part012" THEN <<Message("system", SystemPrompts[1])>> ELSE <<>>

\* validateAndFormatJSON(content): the content when it parses, else the JSON
\* text of {value: content}.
validateAndFormatJSON(content) ==
  IF JSONParse(content).ok THEN content
  ELSE Stringify(ObjV(<<"v">>, StrV(content)))

\* The end of run: the content parsed and checked against the schema.
\* src/agent.ts parses with JSON.parse, which throws; part_012 with
\* safeJSONParse.
CrossValidate(v, schema, content) ==
  IF schema = "none" THEN [kind |-> "returned", data |-> StrV(content)]
  ELSE IF v = "SrcAgent" /\ ~JSONParse(content).ok
  THEN Raised(Err("SyntaxError", "Unexpected token"))
  ELSE LET parsedResponse == safeParse(schema, safeJSONParse(content))
       IN IF parsedResponse.success
          THEN [kind |-> "returned", data |-> parsedResponse.data]
          ELSE Raised(Err("Error", "Response does not match schema"))

\* addToMemory(userMessage, { role: "assistant", content }): both messages
\* are valid, so they are pushed and the memory is truncated.
addToMemory(mem, userPrompt, content) ==
  truncate(mem \o <<Message("user", userPrompt), Message("assistant", content)>>,
           DefaultMaxMemory, TRUE)

\* What the provider does with the transport call of a run.
CrossResponses ==
  {[kind |-> "rejects"]}
  \cup [kind : {"content"}, content : AgentContents \cup {<<>>}]
  \cup [kind : {"tool"}, name : ToolNames]

\* run(prompt) from its call to its end: the memory it leaves and what it
\* returns or throws.
CrossRunResult(v, schema, mock, tls, mem, resp) ==
  IF mock
  THEN [memory |-> mem,
        outcome |-> CrossValidate(v, schema,
                                  IF schema = "none" THEN DefaultMockData
                                  ELSE validateAndFormatJSON(DefaultMockData))]
  ELSE IF resp.kind = "rejects"
  THEN [memory |-> mem, outcome |-> Raised(Err("Error", "network"))]
  ELSE IF resp.kind = "tool" /\ v = "Part012" /\ tls # {}
  THEN [memory |-> mem,
        outcome |-> IF resp.name \in tls
                    THEN [kind |-> "returned", data |-> ToolResult]
                    ELSE Raised(Err("Error", "Tool not found"))]
  ELSE LET content == IF resp.kind = "content" THEN resp.content ELSE <<>>
       IN [memory |-> addToMemory(mem, UserPrompt, content),
           outcome |-> CrossValidate(v, schema, content)]

CrossInit ==
  /\ crossVariant \in CrossVariants
  /\ crossSchema \in {"none", "city"}
  /\ crossMock \in BOOLEAN
  /\ crossTools \in IF crossVariant = "Part012" THEN {{}, {"t"}} ELSE {{}}
  /\ crossMemory = CrossFreshMemory(crossVariant)
  /\ crossBefore = crossMemory
  /\ crossOutcome = NoOutcome
  /\ crossRuns = 0

CrossAtRest ==
  /\ crossVariant = "SrcAgent"
  /\ crossSchema = "none"
  /\ crossMock = FALSE
  /\ crossTools = {}
  /\ crossMemory = <<>>
  /\ crossBefore = <<>>
  /\ crossOutcome = NoOutcome
  /\ crossRuns = 0

CrossRun ==
  /\ crossRuns < MaxRuns
  /\ \E resp \in CrossResponses :
       LET res == CrossRunResult(crossVariant, crossSchema, crossMock, crossTools,
                                 crossMemory, resp)
       IN /\ crossMemory' = res.memory
          /\ crossOutcome' = res.outcome
  /\ crossBefore' = crossMemory
  /\ crossRuns' = crossRuns + 1
  /\ UNCHANGED <<crossVariant, crossSchema, crossMock, crossTools, exceptCross>>

(***************************************************************************)
(* ToolExecutor.execute: one step is one of its stages (the awaits between *)
(* them), or the catch block.                                              *)
(***************************************************************************)
\* The Tools and params of a call: whether there is a parametersSchema and
\* the params match it, and what each hook does when it is there.
ExecTools ==
  [schema : {"absent", "valid", "invalid"},
   prepare : {"absent", "definition", "null", "throws"},
   beforeExecute : {"absent", "returns", "throws"},
   fn : {"returns", "throws"},
   afterExecute : {"absent", "returns", "throws"},
   onError : {"absent", "value", "null", "undefined", "throws"}]

\* The error a stage throws.
StageError(stage) ==
  IF stage = "validate" THEN Err("ZodError", "invalid params")
  ELSE IF stage = "prepareNull" THEN Err("Error", "Tool preparation failed")
  ELSE Err("Error", stage)

ExecInit ==
  /\ execTool \in ExecTools
  /\ execPc = "validate"
  /\ execEvents = <<>>
  /\ execError = NoError
  /\ execOutcome = NoOutcome

ExecAtRest ==
  /\ execTool = [schema |-> "absent", prepare |-> "absent", beforeExecute |-> "absent",
                 fn |-> "returns", afterExecute |-> "absent", onError |-> "absent"]
  /\ execPc = "validate"
  /\ execEvents = <<>>
  /\ execError = NoError
  /\ execOutcome = NoOutcome

\* One stage of the try block: skipped when the hook is absent, else taken;
\* when it throws, the catch block is next.
ExecStage(stage, present, err, next) ==
  /\ execPc = stage
  /\ execEvents' = IF present THEN Append(execEvents, stage) ELSE execEvents
  /\ execError' = IF present THEN err ELSE execError
  /\ execPc' = IF present /\ err # NoError THEN "catch" ELSE next
  /\ execOutcome' = IF execPc' = "done"
                    THEN [kind |-> "returned", data |-> StrV(<<"r">>)] ELSE execOutcome
  /\ UNCHANGED <<execTool, exceptExec>>

\* if (this.tool.parametersSchema) this.tool.parametersSchema.parse(params)
ExecValidate ==
  /\ execPc = "validate"
  /\ ExecStage("validate", execTool.schema # "absent",
               IF execTool.schema = "invalid" THEN StageError("validate") ELSE NoError,
               "prepare")

\* if (this.tool.prepare): a definition, or null, which throws.
ExecPrepare ==
  /\ execPc = "prepare"
  /\ ExecStage("prepare", execTool.prepare # "absent",
               IF execTool.prepare = "throws" THEN StageError("prepare")
               ELSE IF execTool.prepare = "null" THEN StageError("prepareNull")
               ELSE NoError,
               "beforeExecute")

ExecBeforeExecute ==
  /\ execPc = "beforeExecute"
  /\ ExecStage("beforeExecute", execTool.beforeExecute # "absent",
               IF execTool.beforeExecute = "throws" THEN StageError("beforeExecute")
               ELSE NoError,
               "fn")

ExecFn ==
  /\ execPc = "fn"
  /\ ExecStage("fn", TRUE,
               IF execTool.fn = "throws" THEN StageError("fn") ELSE NoError,
               "afterExecute")

ExecAfterExecute ==
  /\ execPc = "afterExecute"
  /\ ExecStage("afterExecute", execTool.afterExecute # "absent",
               IF execTool.afterExecute = "throws" THEN StageError("afterExecute")
               ELSE NoError,
               "done")

\* An onError whose null counts as no recovery.
RecoversLoose(how) == how = "value"

\* recovery !== undefined
Recovers(how) == how \in {"value", "null"}

\* The catch block: onError, when defined, is awaited; a recovery other than
\* undefined is returned, an error it throws leaves execute, else the
\* caught error is thrown again.
ExecOnError ==
  /\ execPc = "catch"
  /\ execPc' = "done"
  /\ execEvents' = IF execTool.onError # "absent" THEN Append(execEvents, "onError")
                   ELSE execEvents
  /\ execOutcome' =
       IF execTool.onError = "throws" THEN Raised(StageError("onError"))
       ELSE IF Recovers(execTool.onError)
       THEN [kind |-> "returned",
             data |-> IF execTool.onError = "null" THEN [t |-> "null"] ELSE StrV(<<"v">>)]
       ELSE Raised(execError)
  /\ UNCHANGED <<execTool, execError, exceptExec>>

(***************************************************************************)
(* The wire descriptor of a Zod schema: generateOpenAISchema with          *)
(* zodToJsonSchema (Agent.ts) and zodToJson (part_008).  A Zod object is   *)
(* its shape, a sequence of [key, value]; a descriptor has the key         *)
(* "required" only when the code puts it there.                            *)
(***************************************************************************)
ZString == [t |-> "string"]
ZNumber == [t |-> "number"]
ZOptional(x) == [t |-> "optional", inner |-> x]
ZDefault(x) == [t |-> "default", inner |-> x]
ZObject(shape) == [t |-> "object", shape |-> shape]
\* z.date(): a kind none of the generators has a case for.
ZDate == [t |-> "date"]

FieldKeys == <<"a", "b", "c", "d">>

\* The fields that are not objects: plain, optional-wrapped, default-wrapped.
LeafFields == {ZString, ZOptional(ZString), ZDefault(ZNumber)}

\* The fields of the outer object: a field may also be of an unsupported
\* kind.
OuterFields == LeafFields \cup {ZDate}

\* The shapes of up to MaxFields fields with values from vals, then more.
ShapesOf(vals, more) ==
  UNION { { [k \in 1..n |-> [key |-> FieldKeys[k], value |-> f[k]]] \o more :
            f \in [1..n -> vals] } : n \in 0..MaxFields }

InnerObjects == { ZObject(sh) : sh \in ShapesOf(LeafFields, <<>>) }

\* The schemas given to the generators: objects of leaf fields with, at
\* most, one more field that is an object, plain or optional-wrapped.
ZodObjects ==
  { ZObject(sh) : sh \in ShapesOf(OuterFields, <<>>) }
  \cup UNION { { ZObject(sh) : sh \in ShapesOf(OuterFields, <<[key |-> "o", value |-> o]>>) } :
              o \in InnerObjects \cup { ZOptional(x) : x \in InnerObjects } }

RECURSIVE RequiredKeys(_, _)
\* The keys of the fields of shape whose value is of none of the kinds in
\* wrappers, in order.
RequiredKeys(shape, wrappers) ==
  IF shape = <<>> THEN <<>>
  ELSE (IF Head(shape).value.t \in wrappers THEN <<>> ELSE <<Head(shape).key>>)
       \o RequiredKeys(Tail(shape), wrappers)

\* What stands for the descriptor when the generator throws.
Thrown == [type |-> "throw"]

RECURSIVE zodToJsonSchema(_)
\* zodToJsonSchema of Agent.ts, which throws "Unsupported Zod schema type"
\* for a kind it has no case for; the error of a field is the error of the
\* object.
zodToJsonSchema(schema) ==
  IF schema.t \in {"string", "number"} THEN [type |-> schema.t]
  ELSE IF schema.t \in {"optional", "default"} THEN zodToJsonSchema(schema.inner)
  ELSE IF schema.t # "object" THEN Thrown
  ELSE IF \E k \in 1..Len(schema.shape) : zodToJsonSchema(schema.shape[k].value) = Thrown
  THEN Thrown
  ELSE LET properties == [k \in 1..Len(schema.shape) |->
                            [key |-> schema.shape[k].key,
                             value |-> zodToJsonSchema(schema.shape[k].value)]]
           required == RequiredKeys(schema.shape, {"optional", "default"})
       IN IF Len(required) > 0
          THEN [type |-> "object", properties |-> properties, required |-> required]
          ELSE [type |-> "object", properties |-> properties]

\* generateOpenAISchema(tool).parameters for a tool with a Zod object.
generateOpenAISchema(schema) ==
  LET j == zodToJsonSchema(schema)
  IN IF j = Thrown THEN Thrown
     ELSE IF "required" \in DOMAIN j /\ Len(j.required) > 0
     THEN [type |-> "object", properties |-> j.properties, required |-> j.required]
     ELSE [type |-> "object", properties |-> j.properties]

RECURSIVE zodToJson(_)
\* zodToJson of part_008: every key of the shape is required; a wrapped
\* field is none of the kinds it knows.
zodToJson(schema) ==
  IF schema.t \in {"string", "number"} THEN [type |-> schema.t]
  ELSE IF schema.t = "object"
  THEN [type |-> "object",
        properties |-> [k \in 1..Len(schema.shape) |->
                          [key |-> schema.shape[k].key,
                           value |-> zodToJson(schema.shape[k].value)]],
        required |-> [k \in 1..Len(schema.shape) |-> schema.shape[k].key]]
  ELSE [type |-> "any"]

Generators == {"generateOpenAISchema", "zodToJson"}

GenInit ==
  /\ genIn \in [generator : Generators, schema : ZodObjects]
  /\ genOut = [done |-> FALSE]

GenAtRest ==
  /\ genIn = [generator |-> "zodToJson", schema |-> ZObject(<<>>)]
  /\ genOut = [done |-> FALSE]

\* The generator is called with the schema.
Generate ==
  /\ ~genOut.done
  /\ genOut' = [done |-> TRUE,
                descriptor |-> IF genIn.generator = "zodToJson" THEN zodToJson(genIn.schema)
                               ELSE generateOpenAISchema(genIn.schema)]
  /\ UNCHANGED <<genIn, exceptGen>>

(***************************************************************************)
(* Agent.lastRunMessages over the run and runStream calls made on one      *)
(* Agent of Agent.ts or part_000, which has the system prompt "S" and a    *)
(* dynamic system prompt whose text changes from one invocation to the     *)
(* next.                                                                   *)
(***************************************************************************)
LrPrompts == {<<"p">>, <<"q">>}

\* The text the dynamic system prompt gives at its n-th invocation.
DynText(n) == IF n % 2 = 1 THEN <<"D">> ELSE <<"E">>

\* A lastRunMessages that keeps the list of the first assembly.
LastRunKeepsFirst(old, assembled) == IF old = <<>> THEN assembled ELSE old

\* this.lastRunMessages = messages
LastRunAfter(old, assembled) == assembled

\* prepareMessages(userPrompt) followed by this.lastRunMessages = messages.
LrAssemble(userPrompt) ==
  /\ lrInvocations' = lrInvocations + 1
  /\ lrPrompt' = userPrompt
  /\ lrMessages' =
       LastRunAfter(lrMessages,
                    prepareMessages(lrVariant, SystemPrompts,
                                    <<[mode |-> "sync", text |-> DynText(lrInvocations + 1)]>>,
                                    <<>>, userPrompt))

LastRunInit ==
  /\ lrVariant \in Variants
  /\ lrMessages = <<>>
  /\ lrPc = "idle"
  /\ lrPrompt = <<>>
  /\ lrInvocations = 0
  /\ lrRetry = 0
  /\ lrCalls = 0
  /\ lrLog = <<>>

LastRunAtRest ==
  /\ lrVariant = "AgentTs"
  /\ lrMessages = <<>>
  /\ lrPc = "idle"
  /\ lrPrompt = <<>>
  /\ lrInvocations = 0
  /\ lrRetry = 0
  /\ lrCalls = 0
  /\ lrLog = <<>>

\* run(userPrompt) is called: the messages are assembled and kept, the
\* first attempt begins.
LrRun ==
  /\ lrPc = "idle"
  /\ lrCalls < MaxRuns
  /\ \E userPrompt \in LrPrompts : LrAssemble(userPrompt)
  /\ lrCalls' = lrCalls + 1
  /\ lrPc' = "attempt"
  /\ lrLog' = Append(lrLog, "run")
  /\ UNCHANGED <<lrVariant, lrRetry, exceptLastRun>>

\* A ModelRetry reaches the outer catch within the result retries:
\* this.currentRetry++ and return this.run(userPrompt, options).
LrModelRetry ==
  /\ lrPc = "attempt"
  /\ CanRetryResult(lrRetry, MaxResultRetries)
  /\ lrRetry' = lrRetry + 1
  /\ LrAssemble(lrPrompt)
  /\ lrLog' = Append(lrLog, "rerun")
  /\ UNCHANGED <<lrVariant, lrPc, lrCalls, exceptLastRun>>

\* The attempt returns its result.
LrReturns ==
  /\ lrPc = "attempt"
  /\ lrPc' = "idle"
  /\ lrLog' = Append(lrLog, "returned")
  /\ UNCHANGED <<lrVariant, lrMessages, lrPrompt, lrInvocations, lrRetry, lrCalls,
                 exceptLastRun>>

\* The attempt fails for good: run throws.
LrRaises ==
  /\ lrPc = "attempt"
  /\ lrPc' = "idle"
  /\ lrLog' = Append(lrLog, "raised")
  /\ UNCHANGED <<lrVariant, lrMessages, lrPrompt, lrInvocations, lrRetry, lrCalls,
                 exceptLastRun>>

\* runStream(userPrompt) is consumed: the messages are assembled and kept,
\* then the stream is read to its end or create rejects.
LrRunStream ==
  /\ lrPc = "idle"
  /\ lrCalls < MaxRuns
  /\ \E userPrompt \in LrPrompts : LrAssemble(userPrompt)
  /\ lrCalls' = lrCalls + 1
  /\ \E end \in {"streamed", "streamRejected"} : lrLog' = Append(lrLog, end)
  /\ UNCHANGED <<lrVariant, lrPc, lrRetry, exceptLastRun>>

(***************************************************************************)
(* Several invocations of run under way on one Agent (Agent.ts, part_000)  *)
(* with the tool "t": each invocation runs up to its next await, then      *)
(* another may run.                                                        *)
(***************************************************************************)
Invocations == 1..MaxInvocations

ZeroTokens == [promptTokens |-> 0, completionTokens |-> 0, totalTokens |-> 0]

\* The token counts counts with the usage u added.
PlusUsage(counts, u) ==
  [promptTokens |-> counts.promptTokens + u.prompt_tokens,
   completionTokens |-> counts.completionTokens + u.completion_tokens,
   totalTokens |-> counts.totalTokens + u.total_tokens]

\* An update that overwrites the counts with the usage in both Agents.
UpdateTokensOverwrite(v, counts, u) == PlusUsage(ZeroTokens, u)

\* "Update cost tracking" of handleResponse: part_000 adds the usage to the
\* counts (+=), Agent.ts overwrites them (=); no await comes between the
\* read and the write.
UpdateTokens(v, counts, u) ==
  IF v = "Part000" THEN PlusUsage(counts, u) ELSE PlusUsage(ZeroTokens, u)

\* The counts after a response with tool calls: Agent.ts has overwritten
\* them before it handles the call, part_000 handles the call first and
\* returns or throws before "Update usage statistics".
UpdateOnToolCalls(v, counts, u) ==
  IF v = "Part000" THEN counts ELSE PlusUsage(ZeroTokens, u)

\* The usages a response reports.
CcUsages == {Usage(1, 1), Usage(1, 2)}

\* The usage a response with a call of the tool reports.
CcToolUsage == Usage(2, 2)

\* The history kept for the Agent whose token counts add up.
Tracked(v, counts) == IF v = "Part000" THEN counts ELSE ZeroTokens

\* Invocation a of the Agent whose counts add up resumes while another
\* invocation that has updated or will update the counts is under way.
Overlapped(v, pcs, a) ==
  v = "Part000" /\ \E b \in Invocations \ {a} : pcs[b] \in {"create", "backoff"}

ConcInit ==
  /\ ccVariant \in {"AgentTs", "Part000"}
  /\ ccDefault \in 1..MaxRetries
  /\ ccMax \in 0..MaxResultRetries
  /\ ccPc = [a \in Invocations |-> "idle"]
  /\ ccI = [a \in Invocations |-> 0]
  /\ ccBudget = ccDefault
  /\ ccRetry = 0
  /\ ccCost = ZeroTokens
  /\ ccActor = 0
  /\ ccOverlap = FALSE
  /\ ccReported = ZeroTokens
  /\ ccCounted = ZeroTokens

ConcAtRest ==
  /\ ccVariant = "AgentTs"
  /\ ccDefault = 1
  /\ ccMax = 0
  /\ ccPc = [a \in Invocations |-> "idle"]
  /\ ccI = [a \in Invocations |-> 0]
  /\ ccBudget = 1
  /\ ccRetry = 0
  /\ ccCost = ZeroTokens
  /\ ccActor = 0
  /\ ccOverlap = FALSE
  /\ ccReported = ZeroTokens
  /\ ccCounted = ZeroTokens

\* run is called: the budget of the tool is reset, i = 0, create is awaited.
CcStart ==
  \E a \in Invocations :
    /\ ccPc[a] = "idle"
    /\ ccBudget' = ResetToolRetries({"t"}, ccDefault)["t"]
    /\ ccI' = [ccI EXCEPT ![a] = 0]
    /\ ccPc' = [ccPc EXCEPT ![a] = "create"]
    /\ ccActor' = a
    /\ UNCHANGED <<ccVariant, ccDefault, ccMax, ccRetry, ccCost, ccReported, ccCounted,
                   ccOverlap, exceptConc>>

\* The attempt of an invocation fails: create rejects, or the response
\* reports its usage and the handler of the tool throws (in Agent.ts the
\* counts have been overwritten, the budget is decremented and a
\* ModelRetry thrown while it is positive).  The
\* catch of the loop backs off or rethrows; the outer catch runs again on a
\* ModelRetry within the result retries, else throws.
CcAttemptFails ==
  \E a \in Invocations, how \in {"transport", "tool"} :
    LET u == CcToolUsage
        modelRetry == how = "tool" /\ ccVariant = "AgentTs" /\ ccBudget > 0
        budget == IF modelRetry THEN ccBudget - 1 ELSE ccBudget
        backoff == ShouldBackoff(ccI[a], ccDefault)
        rerun == ~backoff /\ modelRetry /\ CanRetryResult(ccRetry, ccMax)
        counts == IF how = "tool" THEN UpdateOnToolCalls(ccVariant, ccCost, u)
                  ELSE ccCost
    IN /\ ccPc[a] = "create"
       /\ ccCost' = counts
       /\ ccReported' = IF how = "tool" THEN Tracked(ccVariant, PlusUsage(ccReported, u))
                        ELSE ccReported
       /\ UNCHANGED <<ccCounted, ccOverlap>>
       /\ ccBudget' = IF rerun THEN ResetToolRetries({"t"}, ccDefault)["t"] ELSE budget
       /\ ccRetry' = IF rerun THEN ccRetry + 1 ELSE ccRetry
       /\ ccI' = IF rerun THEN [ccI EXCEPT ![a] = 0] ELSE ccI
       /\ ccPc' = [ccPc EXCEPT ![a] = IF backoff THEN "backoff"
                                      ELSE IF rerun THEN "create" ELSE "raised"]
       /\ ccActor' = a
       /\ UNCHANGED <<ccVariant, ccDefault, ccMax, exceptConc>>

\* The backoff timer of an invocation fires: continue with i + 1.
CcBackoff ==
  \E a \in Invocations :
    /\ ccPc[a] = "backoff"
    /\ ccI' = [ccI EXCEPT ![a] = ccI[a] + 1]
    /\ ccPc' = [ccPc EXCEPT ![a] = "create"]
    /\ ccActor' = a
    /\ UNCHANGED <<ccVariant, ccDefault, ccMax, ccBudget, ccRetry, ccCost, ccReported, ccCounted,
                   ccOverlap,
                   exceptConc>>

\* create resolves with content for an invocation: the cost is updated from
\* the usage and run returns.
CcContent ==
  \E a \in Invocations, u \in CcUsages :
    /\ ccPc[a] = "create"
    /\ ccCost' = UpdateTokens(ccVariant, ccCost, u)
    /\ ccReported' = Tracked(ccVariant, PlusUsage(ccReported, u))
    /\ ccCounted' = Tracked(ccVariant, PlusUsage(ccCounted, u))
    /\ ccOverlap' = (ccOverlap \/ Overlapped(ccVariant, ccPc, a))
    /\ ccPc' = [ccPc EXCEPT ![a] = "returned"]
    /\ ccActor' = a
    /\ UNCHANGED <<ccVariant, ccDefault, ccMax, ccI, ccBudget, ccRetry, exceptConc>>

\* create resolves with a call of the tool for an invocation and the handler
\* returns: run returns the result of the handler.
CcToolReturns ==
  \E a \in Invocations :
    /\ ccPc[a] = "create"
    /\ ccCost' = UpdateOnToolCalls(ccVariant, ccCost, CcToolUsage)
    /\ ccReported' = Tracked(ccVariant, PlusUsage(ccReported, CcToolUsage))
    /\ ccPc' = [ccPc EXCEPT ![a] = "returned"]
    /\ ccActor' = a
    /\ UNCHANGED <<ccVariant, ccDefault, ccMax, ccI, ccBudget, ccRetry, ccCounted, ccOverlap,
                   exceptConc>>

(***************************************************************************)
(* The arrays of run: the messageHistory array of the caller and the       *)
(* transcript array each run of Agent.ts or part_011 builds.  An array is  *)
(* a place in frHeap, so that two names of one array see the same pushes.  *)
(***************************************************************************)
\* An assembly that pushes onto the array of the caller.
AssembleIntoHistory(heap, history, elements) ==
  [heap |-> [heap EXCEPT ![history] = elements], ref |-> history]

\* const messages: Message[] = [] (part_011: an array literal) and what is
\* pushed onto it: a new array.
AssembleInto(heap, history, elements) ==
  [heap |-> Append(heap, elements), ref |-> Len(heap) + 1]

\* What part_011 pushes for a response with one tool call and the content
\* that follows it.
ToolRound ==
  << ToolCallMessage(<<[name |-> "t", how |-> "returns", id |-> 1]>>),
     ToolMessage(1, ToolResult),
     Message("assistant", <<"A">>) >>

FrameInit ==
  /\ frVariant \in {"AgentTs", LoopVariant}
  /\ frHistory0 \in Histories
  /\ frHeap = <<frHistory0>>
  /\ frHistory = 1
  /\ frTranscripts = <<>>

FrameAtRest ==
  /\ frVariant = "AgentTs"
  /\ frHistory0 = <<>>
  /\ frHeap = <<frHistory0>>
  /\ frHistory = 1
  /\ frTranscripts = <<>>

\* run(userPrompt, options), with or without options.messageHistory: the
\* transcript is assembled (in part_011 the turns of a tool round may be
\* pushed onto it) and run returns.
FrRun ==
  /\ Len(frTranscripts) < MaxRuns
  /\ \E userPrompt \in LrPrompts, withHistory \in BOOLEAN,
        toolRound \in IF frVariant = LoopVariant THEN BOOLEAN ELSE {FALSE} :
       LET messageHistory == IF withHistory THEN frHeap[frHistory] ELSE <<>>
           prepared == prepareMessages(frVariant, SystemPrompts, <<>>, messageHistory,
                                       userPrompt)
           elements == IF toolRound THEN prepared \o ToolRound ELSE prepared
           made == AssembleInto(frHeap, frHistory, elements)
       IN /\ frHeap' = made.heap
          /\ frTranscripts' = Append(frTranscripts, [ref |-> made.ref, messages |-> elements])
  /\ UNCHANGED <<frVariant, frHistory, frHistory0, exceptFrame>>

(***************************************************************************)
(* The rounds of the tool loop of lib/agent.ts and its toolResults map.    *)
(* The tools "t" and "u" are registered; a handler returns the argument it *)
(* was called with.                                                        *)
(***************************************************************************)
MAX_TOOL_CALLS == 3

LlArgs == {"x", "y"}

\* The tool_calls arrays of a response: calls of registered tools.
LlCallLists ==
  UNION { [1..n -> [name : ToolNames, args : LlArgs]] : n \in 1..MaxToolCalls }

\* await tool.implementation(args)
LlResult(call) == <<call.args>>

RECURSIVE RecordResults(_, _, _)
\* toolResults[toolCall.function.name] = result, run by each task when its
\* handler completes: order lists the calls as they complete.
RecordResults(toolResults, calls, order) ==
  IF order = <<>> THEN toolResults
  ELSE RecordResults([toolResults EXCEPT ![calls[Head(order)].name] =
                                            LlResult(calls[Head(order)])],
                     calls, Tail(order))

LibRunInit ==
  /\ llPc = "calling"
  /\ llRounds = 0
  /\ llToolResults = [n \in ToolNames |-> <<>>]
  /\ llLast = [calls |-> <<>>, order |-> <<>>]

LibRunAtRest ==
  /\ llPc = "done"
  /\ llRounds = 0
  /\ llToolResults = [n \in ToolNames |-> <<>>]
  /\ llLast = [calls |-> <<>>, order |-> <<>>]

\* create resolves with tool calls: every task is started, the tasks
\* complete in any order, the loop continues with the next request.
LlToolRound ==
  /\ llPc = "calling"
  /\ llRounds < MaxRounds
  /\ \E calls \in LlCallLists :
       \E order \in CompletionOrders(Len(calls)) :
         /\ llToolResults' = RecordResults(llToolResults, calls, order)
         /\ llLast' = [calls |-> calls, order |-> order]
  /\ llRounds' = llRounds + 1
  /\ UNCHANGED <<llPc, exceptLibRun>>

\* create resolves with content: run returns.
LlContent ==
  /\ llPc = "calling"
  /\ llPc' = "done"
  /\ UNCHANGED <<llRounds, llToolResults, llLast, exceptLibRun>>

(***************************************************************************)
(* Specifications: one per component, the other components at rest.        *)
(***************************************************************************)
MemoryAtRest ==
  /\ memVariant = "lib"
  /\ maxMessages = 0
  /\ keepSystemPrompt = TRUE
  /\ messages = <<>>
  /\ added = <<>>
  /\ addThrew = FALSE

ValidateAtRest ==
  /\ valSchema = "none"
  /\ valContent = <<>>
  /\ valDone = FALSE
  /\ valOut = ParseFail

AgentAtRest ==
  LoopConfigs /\ AgentFresh /\ variant = LoopVariant /\ tools = {} /\ resultType = "none"

CredentialsAtRest ==
  /\ holderKey = "absent"
  /\ envKey = "ka"
  /\ credAgent = NotConstructed
  /\ credSeen = [explicit |-> "absent", holder |-> "absent", env |-> "absent"]
  /\ dispatchedKey = "absent"

AssemblyAtRest ==
  /\ asmIn = [variant |-> "AgentTs", systemPrompts |-> <<>>,
              systemPromptFunctions |-> <<>>, messageHistory |-> <<>>,
              userPrompt |-> UserPrompt]
  /\ asmOut = [done |-> FALSE, messages |-> <<>>]

StreamAtRest ==
  /\ streamPc = "idle"
  /\ arrived = <<>>
  /\ yielded = <<>>
  /\ streamCalls = 0

RegistryAtRest ==
  /\ regVariant = "AgentTs"
  /\ registry = <<>>
  /\ registrations = <<>>
  /\ regThrew = FALSE
  /\ lastCall = NoCall
  /\ regDefault = 1
  /\ atRunStart = FALSE

\* The components other than Memory, the validation and the Agent, at rest.
ExtraAtRest ==
  CrossAtRest /\ ExecAtRest /\ GenAtRest /\ LastRunAtRest /\ ConcAtRest
  /\ FrameAtRest
  /\ LibRunAtRest

OthersAtRest ==
  AssemblyAtRest /\ CredentialsAtRest /\ StreamAtRest /\ RegistryAtRest /\ ExtraAtRest

CoreAtRest ==
  /\ MemoryAtRest /\ ValidateAtRest /\ AgentAtRest /\ AssemblyAtRest
  /\ CredentialsAtRest /\ StreamAtRest /\ RegistryAtRest

InitMemory == MemoryInit /\ ValidateAtRest /\ AgentAtRest /\ OthersAtRest
NextMemory == AddOne \/ AddTwo
SpecMemory == InitMemory /\ [][NextMemory]_vars

InitValidate == ValidateInit /\ MemoryAtRest /\ AgentAtRest /\ OthersAtRest
NextValidate == HandleContent

SpecValidate == InitValidate /\ [][NextValidate]_vars

InitAssembly ==
  /\ AssemblyInit
  /\ MemoryAtRest /\ ValidateAtRest /\ AgentAtRest /\ CredentialsAtRest /\ StreamAtRest
  /\ RegistryAtRest /\ ExtraAtRest
NextAssembly == Assemble
SpecAssembly == InitAssembly /\ [][NextAssembly]_vars

InitCredentials ==
  /\ CredentialsInit
  /\ MemoryAtRest /\ ValidateAtRest /\ AgentAtRest /\ AssemblyAtRest /\ StreamAtRest
  /\ RegistryAtRest /\ ExtraAtRest
NextCredentials == SetApiKey \/ Construct \/ Dispatch
SpecCredentials == InitCredentials /\ [][NextCredentials]_vars

InitStream ==
  /\ StreamAgents /\ AgentFresh /\ StreamAtRest
  /\ MemoryAtRest /\ ValidateAtRest /\ AssemblyAtRest /\ CredentialsAtRest
  /\ RegistryAtRest /\ ExtraAtRest
NextStream == StreamOpen \/ StreamRejects \/ StreamChunk \/ StreamEnds \/ StreamBreaks
SpecStream == InitStream /\ [][NextStream]_vars

InitRegistry ==
  /\ RegistryInit
  /\ MemoryAtRest /\ ValidateAtRest /\ AgentAtRest /\ AssemblyAtRest
  /\ CredentialsAtRest /\ StreamAtRest /\ ExtraAtRest
NextRegistry == RegisterTool \/ CallTool \/ RegRunStart
SpecRegistry == InitRegistry /\ [][NextRegistry]_vars

InitCross ==
  CrossInit /\ CoreAtRest /\ ExecAtRest /\ GenAtRest /\ LastRunAtRest /\ ConcAtRest
  /\ FrameAtRest
  /\ LibRunAtRest
NextCross == CrossRun
SpecCross == InitCross /\ [][NextCross]_vars

InitExec ==
  ExecInit /\ CoreAtRest /\ CrossAtRest /\ GenAtRest /\ LastRunAtRest /\ ConcAtRest
  /\ FrameAtRest
  /\ LibRunAtRest
NextExec ==
  \/ ExecValidate \/ ExecPrepare \/ ExecBeforeExecute \/ ExecFn \/ ExecAfterExecute
  \/ ExecOnError
SpecExec == InitExec /\ [][NextExec]_vars

InitGen ==
  GenInit /\ CoreAtRest /\ CrossAtRest /\ ExecAtRest /\ LastRunAtRest /\ ConcAtRest
  /\ FrameAtRest
  /\ LibRunAtRest
NextGen == Generate
SpecGen == InitGen /\ [][NextGen]_vars

InitLastRun ==
  LastRunInit /\ CoreAtRest /\ CrossAtRest /\ ExecAtRest /\ GenAtRest /\ ConcAtRest
  /\ FrameAtRest
  /\ LibRunAtRest
NextLastRun == LrRun \/ LrModelRetry \/ LrReturns \/ LrRaises \/ LrRunStream
SpecLastRun == InitLastRun /\ [][NextLastRun]_vars

InitConc ==
  ConcInit /\ CoreAtRest /\ CrossAtRest /\ ExecAtRest /\ GenAtRest /\ LastRunAtRest
  /\ FrameAtRest
  /\ LibRunAtRest
NextConc == CcStart \/ CcAttemptFails \/ CcBackoff \/ CcContent \/ CcToolReturns
SpecConc == InitConc /\ [][NextConc]_vars

InitFrame ==
  FrameInit /\ CoreAtRest /\ CrossAtRest /\ ExecAtRest /\ GenAtRest /\ LastRunAtRest
  /\ ConcAtRest /\ LibRunAtRest
NextFrame == FrRun
SpecFrame == InitFrame /\ [][NextFrame]_vars

InitLibRun ==
  LibRunInit /\ CoreAtRest /\ CrossAtRest /\ ExecAtRest /\ GenAtRest /\ LastRunAtRest
  /\ ConcAtRest /\ FrameAtRest
NextLibRun == LlToolRound \/ LlContent
SpecLibRun == InitLibRun /\ [][NextLibRun]_vars

Init == AgentInit /\ MemoryAtRest /\ ValidateAtRest /\ OthersAtRest
Next == AgentNext
Spec == Init /\ [][Next]_vars

\* The steps of a run that is under way.  Every transport call, tool
\* handler, validator and backoff timer returns or raises, so a run that
\* can take a step takes one.
RunStep ==
  TransportThrows \/ EmptyResponse \/ ContentResponse \/ ToolCallResponse \/ Backoff

\* The Agents whose runs are followed to their end: every retries and
\* resultRetries, the tool "t" and the result validators registered.
TerminationAgents ==
  /\ variant \in Variants
  /\ defaultRetries \in 1..MaxRetries
  /\ maxResultRetries \in 0..MaxResultRetries
  /\ tools = {"t"}
  /\ resultValidators = <<"rejectWrong", "upper", "suffix">>
  /\ resultType = "none"
  /\ modelPriced = TRUE
  /\ usages = {NoUsage}

InitFair == TerminationAgents /\ AgentFresh /\ MemoryAtRest /\ ValidateAtRest /\ OthersAtRest
NextFair == StartRun \/ RunStep
SpecFair == InitFair /\ [][NextFair]_vars /\ WF_vars(RunStep)

(***************************************************************************)
(* Claims about Memory.                                                    *)
(***************************************************************************)
SystemOf(s) == SelectSeqBy(s, "system", TRUE)
NonSystemOf(s) == SelectSeqBy(s, "system", FALSE)

\* C3: with keepSystemPrompt = true, for every maxMessages >= 0 and every
\* sequence of add calls with valid messages, after each add every system
\* message ever added is stored and the stored non-system messages are
\* exactly the most recent maxMessages non-system messages added, in
\* insertion order.
C3_TrimmingKeepsRecentWindow ==
  (keepSystemPrompt /\ ~addThrew) =>
    /\ SystemOf(messages) = SystemOf(added)
    /\ NonSystemOf(messages) = LastN(NonSystemOf(added), maxMessages)

\* C15: an add call that raises on an invalid message leaves the stored
\* messages exactly as they were before the call (stated for the first
\* add call that raises).
C15_AddValidatesBeforeMutating ==
  [][(~addThrew /\ addThrew') => messages' = messages]_vars

\* C16: with keepSystemPrompt = false, after any add of valid messages no
\* system message is stored and the stored messages are the most recent
\* non-system messages added, at most maxMessages of them, in insertion
\* order.
C16_NoSystemPromptKept ==
  (~keepSystemPrompt /\ ~addThrew /\ added # <<>>) =>
    /\ SystemOf(messages) = <<>>
    /\ messages = LastN(NonSystemOf(added), maxMessages)

(***************************************************************************)
(* Claims about the message assembly.                                      *)
(***************************************************************************)
RECURSIVE IsSubsequence(_, _)
\* a is b with some elements left out.
IsSubsequence(a, b) ==
  IF a = <<>> THEN TRUE
  ELSE IF b = <<>> THEN FALSE
  ELSE IF Head(a) = Head(b) THEN IsSubsequence(Tail(a), Tail(b))
  ELSE IsSubsequence(a, Tail(b))

\* C11: the message list built is, in this order, the static system
\* prompts in registration order, the system turns of the dynamic
\* system-prompt functions in registration order (one for every function
\* when each returns non-empty text directly), the message history
\* unchanged, and the user turn as the last element; its length is the sum
\* of those parts.
C11_MessageAssemblyOrder ==
  asmOut.done =>
    LET out == asmOut.messages
        static == asmIn.systemPrompts
        funcs == asmIn.systemPromptFunctions
        history == asmIn.messageHistory
        dynamic == SubSeq(out, Len(static) + 1, Len(out) - Len(history) - 1)
    IN /\ Len(out) >= Len(static) + Len(history) + 1
       /\ Len(out) = Len(static) + Len(dynamic) + Len(history) + 1
       /\ \A k \in 1..Len(static) : out[k] = [role |-> "system", content |-> static[k]]
       /\ \A k \in 1..Len(dynamic) : dynamic[k].role = "system"
       /\ IsSubsequence([k \in 1..Len(dynamic) |-> dynamic[k].content],
                        [k \in 1..Len(funcs) |-> funcs[k].text])
       /\ (\A k \in 1..Len(funcs) : funcs[k].mode = "sync" /\ funcs[k].text # <<>>) =>
            Len(dynamic) = Len(funcs)
       /\ SubSeq(out, Len(out) - Len(history), Len(out) - 1) = history
       /\ out[Len(out)] = [role |-> "user", content |-> asmIn.userPrompt]

C11_Witness ==
  /\ asmOut.done
  /\ Len(asmIn.systemPrompts) = 2
  /\ asmIn.systemPrompts[1] # asmIn.systemPrompts[2]
  /\ Len(asmIn.systemPromptFunctions) = 2
  /\ Len(asmIn.messageHistory) = 2
  /\ Len(asmOut.messages) = 7
  /\ asmOut.messages[3].content # asmOut.messages[4].content

(***************************************************************************)
(* Claims about the credential.                                            *)
(***************************************************************************)
\* A credential that is given: present and not the empty string.
Given(k) == k \in Keys

\* C12: the credential used is the explicit constructor argument if given,
\* else the value of the process-wide holder if set, else the environment
\* variable; when all three are absent the constructor raises an
\* AgentError, no Agent exists and no transport call is made.
C12_CredentialResolution ==
  credAgent.status # "none" =>
    /\ Given(credSeen.explicit) =>
         (credAgent.status = "created" /\ credAgent.apiKey = credSeen.explicit)
    /\ (~Given(credSeen.explicit) /\ Given(credSeen.holder)) =>
         (credAgent.status = "created" /\ credAgent.apiKey = credSeen.holder)
    /\ (~Given(credSeen.explicit) /\ ~Given(credSeen.holder) /\ Given(credSeen.env)) =>
         (credAgent.status = "created" /\ credAgent.apiKey = credSeen.env)
    /\ (~Given(credSeen.explicit) /\ ~Given(credSeen.holder) /\ ~Given(credSeen.env)) =>
         /\ credAgent.status = "threw"
         /\ credAgent.error.kind = "AgentError"
         /\ dispatchedKey = "absent"
    /\ dispatchedKey # "absent" => dispatchedKey = credAgent.apiKey

C12_Witness ==
  /\ credAgent.status = "created"
  /\ credSeen.explicit = "absent"
  /\ credSeen.holder = "kb"
  /\ credSeen.env = "ka"
  /\ dispatchedKey = "kb"

(***************************************************************************)
(* Claims about the result validation.                                     *)
(***************************************************************************)
DirectlyValid(schema, content) == safeParse(schema, StrV(content)).success
Instances(schema) == {v \in Values : safeParse(schema, v).success}

\* C8 as claimed: the raw content is validated first and parsed only if
\* that fails; content that is a valid instance is returned unchanged; and
\* content that is the JSON text of a valid instance yields that instance.
C8_AsClaimed ==
  (valDone /\ valSchema # "none") =>
    /\ DirectlyValid(valSchema, valContent) =>
         (valOut.ok /\ valOut.phase = "direct" /\ valOut.data = StrV(valContent))
    /\ \A v \in Instances(valSchema) :
         valContent = Stringify(v) => (valOut.ok /\ valOut.data = v)

\* C8 amended: content that is a valid instance is returned unchanged by
\* the direct validation; content that is the JSON text of a valid
\* instance yields that instance when the raw content is not itself a
\* valid instance of the schema (then the raw string is what is returned).
C8_TwoPhaseValidation ==
  (valDone /\ valSchema # "none") =>
    /\ DirectlyValid(valSchema, valContent) =>
         (valOut.ok /\ valOut.phase = "direct" /\ valOut.data = StrV(valContent))
    /\ ~DirectlyValid(valSchema, valContent) =>
         \A v \in Instances(valSchema) :
           valContent = Stringify(v) =>
             (valOut.ok /\ valOut.phase = "parsed" /\ valOut.data = v)

C8_Witness ==
  /\ valDone
  /\ valSchema = "city"
  /\ valContent = Stringify(ObjV(<<"a">>, StrV(<<"a">>)))
  /\ valOut.ok
  /\ valOut.phase = "parsed"

(***************************************************************************)
(* Claims about tool calls.                                                *)
(***************************************************************************)
\* The transcript run returned ([] when it returned only the data).
ReturnedTranscript(o) ==
  IF o.kind = "returned" /\ "messages" \in DOMAIN o THEN o.messages ELSE <<>>

\* The model answered a call of the registered tool, which returned, and
\* then plain content, to an Agent of part_011 without a responseSchema.
ToolThenContent ==
  /\ variant = LoopVariant
  /\ resultType = "none"
  /\ loopPc = "done"
  /\ loopHistory = <<"tool", "content">>
  /\ transcript[Len(transcript)].content # <<>>

\* The turns of the round trip before the final assistant turn.
RoundTripTurns ==
  << [role |-> "system", content |-> <<"S">>],
     [role |-> "user", content |-> <<"p">>],
     [role |-> "assistant", content |-> <<>>,
      tool_calls |-> <<[name |-> "t", how |-> "returns", id |-> 1]>>],
     [role |-> "tool", content |-> <<Quote, "A", Quote>>, tool_call_id |-> 1] >>

RunRaised == pc = "done" /\ outcome.kind = "raised"
RunReturned == pc = "done" /\ outcome.kind = "returned"

\* C1: when the transport call fails (rejects with an Error) on every
\* attempt of a run of an Agent configured with retries = N, exactly N
\* transport calls are made in that run, and run raises the wrapping
\* AgentError whose cause is the error of the last failed attempt.
C1_TransportRetry ==
  (pc = "done" /\ only = "transport") =>
    /\ attempts = defaultRetries
    /\ outcome.kind = "raised"
    /\ outcome.error.kind = "AgentError"
    /\ outcome.error.msg = "Failed to chat with OpenAI"
    /\ outcome.error.cause = [Err("Error", "network") EXCEPT !.at = attempts]

C1_Witness ==
  /\ RunRaised
  /\ only = "transport"
  /\ defaultRetries = MaxRetries
  /\ attempts = MaxRetries
  /\ outcome.error.cause.at = MaxRetries

\* C2: with a result validator that raises ModelRetry on every attempt,
\* exactly resultRetries transport attempts are made in total (retries >= 1,
\* resultRetries >= 1), and run then fails.
C2_ValidatorAlwaysRetries ==
  (pc = "done" /\ only = "retry" /\ maxResultRetries >= 1) =>
    (attempts = maxResultRetries /\ outcome.kind = "raised")

\* C4: for any sequence of successful run calls on one Agent, each one
\* transport call reporting token usage, getCost() returns token counts and
\* costs equal to the sum of the calls' contributions, and RunResult.cost
\* is the cumulative total cost when the run completes.
C4_CostAccumulates ==
  (RunReturned /\ simple) =>
    (cost = expected /\ outcome.cost = expected.totalCost)

\* C6: when a response names a tool that is not registered, run raises at
\* once: no backoff, no further transport call, no budget consumed.
C6_ToolNotFoundFatal ==
  (pc # "attempt" /\ lastCls = "toolmissing") =>
    /\ RunRaised
    /\ currentRetry = retryAtStart
    /\ toolRetries = ResetToolRetries(tools, defaultRetries)

C13_ToolHandlerFailure ==
  (lastTool.how \in {"throws", "throwsNonError"} /\ lastCls \in {"toolretry", "toolfail"}) =>
    IF lastTool.before["t"] > 0
    THEN lastCls = "toolretry" /\ lastTool.after["t"] = lastTool.before["t"] - 1
    ELSE lastCls = "toolfail" /\ lastTool.after = lastTool.before

\* run has just been entered again from a catch block, for a ModelRetry.
InternalRetryStarted == pc = "attempt" /\ i = 0 /\ attempts > 0

\* C14: an internal retry of run caused by a ModelRetry does not restore
\* the retry budget of any tool: the budgets are as the failed attempt
\* left them.
C14_BudgetsKeptOnInternalRetry ==
  InternalRetryStarted => toolRetries = lastTool.after

\* The cost update of part_000 went through for the latest response (a
\* model without a price makes calculateCost throw before the validation).
CostUpdateWentThrough == lastCls # "pricing"

C10_ValidationFailureFatal ==
  (/\ pc # "attempt"
   /\ resultType # "none"
   /\ resultValidators = <<>>
   /\ lastCls = "validation") => RunRaised

(***************************************************************************)
(* Several tool calls in one response.                                     *)
(***************************************************************************)
\* The place in msgs of the latest assistant message with tool calls (0:
\* there is none).
LastToolCallTurn(msgs) ==
  LET at == { k \in 1..Len(msgs) : "tool_calls" \in DOMAIN msgs[k] }
  IN IF at = {} THEN 0 ELSE CHOOSE k \in at : \A j \in at : j <= k

\* msgs ends with the assistant tool-call turn and, after it, one tool turn
\* for each of its calls, in the order of the calls.
ToolTurnsInCallOrder(msgs) ==
  LET a == LastToolCallTurn(msgs)
  IN /\ a > 0
     /\ Len(msgs) = a + Len(msgs[a].tool_calls)
     /\ \A k \in 1..Len(msgs[a].tool_calls) :
          /\ msgs[a + k].role = "tool"
          /\ msgs[a + k].tool_call_id = msgs[a].tool_calls[k].id

\* The tool loop is about to make the transport call that follows a
\* response with tool calls.
AfterToolCalls ==
  /\ variant \in {LoopVariant, LibVariant}
  /\ loopPc = "calling"
  /\ completionOrder # <<>>

\* The Agent has handled a response with several tool calls.
SeveralCallsHandled ==
  variant \in Variants /\ lastTool.calls > 1 /\ lastCls = "tool"

RECURSIVE TextsOf(_)
\* The non-empty texts of the text deltas among the chunks cs, in order.
TextsOf(cs) ==
  IF cs = <<>> THEN <<>>
  ELSE IF Head(cs).kind = "text" /\ Head(cs).content # <<>>
       THEN <<Head(cs).content>> \o TextsOf(Tail(cs))
       ELSE TextsOf(Tail(cs))

\* C18: runStream yields exactly the non-empty plain-text deltas of the
\* transport stream, in arrival order, and nothing for the other chunks; it
\* makes a single transport call, runs neither the schema validation nor
\* the result validators (the texts are yielded as they came), and leaves
\* the cost accumulator and the retry counter as they were.
C18_StreamYieldsTextDeltas ==
  /\ yielded = TextsOf(arrived)
  /\ streamCalls = IF streamPc = "idle" THEN 0 ELSE 1
  /\ cost = ZeroCost
  /\ currentRetry = 0
  /\ attempts = 0
  /\ outcome = NoOutcome

\* A stream of a text, a tool-call delta and a text the validators would
\* reject has ended, on an Agent with validators and a resultType.
C18_Witness ==
  /\ streamPc = "done"
  /\ variant = "Part000"
  /\ arrived = <<[kind |-> "text", content |-> <<"a">>],
                 [kind |-> "toolcall", content |-> <<>>],
                 [kind |-> "text", content |-> <<"1">>]>>
  /\ yielded = << <<"a">>, <<"1">> >>

(***************************************************************************)
(* Claims about the result validators.                                     *)
(***************************************************************************)
\* The latest response carried content and the validators rejectWrong,
\* upper and suffix, registered in this order, were to run on it.
ValidatorsOnContent ==
  /\ variant \in Variants
  /\ resultValidators = <<"rejectWrong", "upper", "suffix">>
  /\ lastCls \in {"content", "retry", "validatorerror"}
  /\ lastTool.how = "none" /\ lastTool.calls = 0

\* C19: the result validators run in registration order on the final
\* content, each receiving the value the previous one returned, and the
\* data of the run is the value of the last one: with rejectWrong, upper
\* and suffix the data is the upper-cased content followed by "a", and
\* content with the digit 1 is rejected before upper or suffix see it.  In
\* part_000 with a resultType the first validator receives the value the
\* schema validation returned, an object that the string validators fail on.
C19_ValidatorsInRegistrationOrder ==
  ValidatorsOnContent =>
    /\ (lastCls = "content") =>
         /\ RunReturned
         /\ \A k \in 1..Len(lastContent) : lastContent[k] # "1"
         /\ resultType = "none"
         /\ outcome.data = StrV(Append(UpperChars(lastContent), "a"))
    /\ (lastCls = "retry") =>
         /\ \E k \in 1..Len(lastContent) : lastContent[k] = "1"
         /\ resultType = "none"
    /\ (lastCls = "validatorerror") =>
         /\ variant = "Part000" /\ resultType = "city"
         /\ lastContent = Stringify(ObjV(<<"a">>, StrV(<<"a">>)))

\* A run returned "Aa" for the content "a".
C19_Witness ==
  /\ ValidatorsOnContent
  /\ RunReturned
  /\ lastContent = <<"a">>
  /\ outcome.data = StrV(<<"A", "a">>)

(***************************************************************************)
(* Claims about the registered tools.                                      *)
(***************************************************************************)
\* The handler of the latest registration under name.
LastRegistered(name) ==
  registrations[CHOOSE k \in PlacesOf(registrations, name) :
                  \A j \in PlacesOf(registrations, name) : j <= k].handler

\* C20: registering a tool under a name that is already registered raises
\* no error and overwrites: exactly one tool is advertised under each
\* registered name, and a call of a registered name invokes the handler
\* registered last under it.
C20_LastWriterWins ==
  /\ ~regThrew
  /\ \A k \in 1..Len(registrations) :
       Cardinality(PlacesOf(registry, registrations[k].name)) = 1
  /\ (lastCall.after = Len(registrations) /\ PlacesOf(registrations, lastCall.name) # {}) =>
       lastCall.handler = LastRegistered(lastCall.name)

(***************************************************************************)
(* Claims about the cross-call memory.                                     *)
(***************************************************************************)
\* C21: a run that returns has appended exactly the user prompt and the
\* final assistant content to the memory, and a run that raises leaves the
\* memory holding exactly the messages it held before the call (stated
\* for the runs that call the provider).
C21_MemoryUpdatedOnlyOnSuccess ==
  crossMock \/
  /\ crossOutcome.kind = "returned" =>
       /\ Len(crossMemory) = Len(crossBefore) + 2
       /\ SubSeq(crossMemory, 1, Len(crossBefore)) = crossBefore
       /\ crossMemory[Len(crossMemory) - 1] = [role |-> "user", content |-> <<"p">>]
       /\ crossMemory[Len(crossMemory)].role = "assistant"
  /\ crossOutcome.kind = "raised" => crossMemory = crossBefore

(***************************************************************************)
(* Claims about ToolExecutor.execute.                                      *)
(***************************************************************************)
\* The stages of execute, in the order of the claim.
StageOrder == <<"validate", "prepare", "beforeExecute", "fn", "afterExecute">>

\* The steps taken are stages in their order, each at most once, then
\* onError at most once, and only after a stage has thrown.
StagesInOrder ==
  LET n == Len(execEvents)
      m == IF n > 0 /\ execEvents[n] = "onError" THEN n - 1 ELSE n
  IN /\ \A k \in 1..m : \E p \in 1..Len(StageOrder) : execEvents[k] = StageOrder[p]
     /\ \A j, k \in 1..m :
          j < k => \E p, q \in 1..Len(StageOrder) :
                     p < q /\ execEvents[j] = StageOrder[p] /\ execEvents[k] = StageOrder[q]
     /\ m < n => execError # NoError
     /\ (execError # NoError /\ execPc = "done") =>
          (m < n <=> execTool.onError # "absent")

\* C22 as stated: whenever onError does not return a value other than
\* undefined, execute rethrows the original error.
C22_AsClaimed ==
  (execPc = "done" /\ execError # NoError /\ execTool.onError \notin {"value", "null"}) =>
    execOutcome = [kind |-> "raised", error |-> execError]

\* C22 amended: execute runs parameter validation, prepare, beforeExecute,
\* fn and afterExecute in this order; when a step raises, the later steps
\* are skipped and onError, if defined, is invoked exactly once: a value
\* other than undefined that it returns (null too) is the result of
\* execute, an error that it raises itself is what execute raises, and
\* otherwise the original error is rethrown.
C22_LifecycleOrder ==
  /\ StagesInOrder
  /\ (execPc = "done" /\ execError = NoError) =>
       /\ execOutcome = [kind |-> "returned", data |-> StrV(<<"r">>)]
       /\ execEvents[Len(execEvents)] \in {"fn", "afterExecute"}
  /\ (execPc = "done" /\ execError # NoError) =>
       execOutcome =
         CASE execTool.onError = "value" -> [kind |-> "returned", data |-> StrV(<<"v">>)]
           [] execTool.onError = "null" -> [kind |-> "returned", data |-> [t |-> "null"]]
           [] execTool.onError = "throws" ->
                [kind |-> "raised", error |-> Err("Error", "onError")]
           [] OTHER -> [kind |-> "raised", error |-> execError]

\* beforeExecute raised after validation and prepare, fn and afterExecute
\* were skipped, and the value onError returned is the result.
C22_Witness ==
  /\ execPc = "done"
  /\ execEvents = <<"validate", "prepare", "beforeExecute", "onError">>
  /\ execOutcome = [kind |-> "returned", data |-> StrV(<<"v">>)]

(***************************************************************************)
(* Claims about the wire descriptors.                                      *)
(***************************************************************************)
\* The object under the optional and default wrappers of a field.
Unwrapped(x) == IF x.t \in {"optional", "default"} THEN x.inner ELSE x

\* The required list of a descriptor, empty when the key is omitted.
RequiredOf(desc) == IF "required" \in DOMAIN desc THEN desc.required ELSE <<>>

\* The descriptor desc of the object obj has a property for every field,
\* and its required list holds exactly the fields that are not wrapped in
\* one of wrappers.
LevelAsClaimed(obj, desc, wrappers) ==
  /\ desc.type = "object"
  /\ Len(desc.properties) = Len(obj.shape)
  /\ \A k \in 1..Len(obj.shape) : desc.properties[k].key = obj.shape[k].key
  /\ \A k \in 1..Len(obj.shape) :
       (\E j \in 1..Len(RequiredOf(desc)) : RequiredOf(desc)[j] = obj.shape[k].key)
         <=> obj.shape[k].value.t \notin wrappers

\* C23: the descriptor of an object schema carries a properties map with
\* every field and a required list with exactly the fields that are not
\* optional-wrapped (in generateOpenAISchema: nor default-wrapped), at every
\* nesting level; generateOpenAISchema omits the required key when the list
\* is empty.
C23_RequiredIsNonOptional ==
  (genOut.done /\ genOut.descriptor # Thrown) =>
    LET wrappers == IF genIn.generator = "zodToJson" THEN {"optional"}
                    ELSE {"optional", "default"}
        obj == genIn.schema
        desc == genOut.descriptor
    IN /\ LevelAsClaimed(obj, desc, wrappers)
       /\ \A k \in 1..Len(obj.shape) :
            Unwrapped(obj.shape[k].value).t = "object" =>
              LevelAsClaimed(Unwrapped(obj.shape[k].value), desc.properties[k].value,
                             wrappers)
       /\ (genIn.generator = "generateOpenAISchema" /\ "required" \in DOMAIN desc) =>
            desc.required # <<>>

(***************************************************************************)
(* Claims about tool calls with a malformed argument payload.              *)
(***************************************************************************)
\* C24: a tool call whose argument payload is not valid JSON is fatal for
\* the run: run raises, the retry budget of the tool is not decremented,
\* and no ModelRetry or further transport call results from it.
C24_MalformedArgumentsFatal ==
  (variant \in Variants /\ lastTool.how = "badArgs"
   /\ lastCls \in {"toolretry", "toolfail"}) =>
    /\ RunRaised
    /\ lastCls = "toolfail"
    /\ lastTool.after = lastTool.before

RECURSIVE InCauseChain(_, _, _)
\* An error of this kind and message is err or one of the causes under it.
InCauseChain(err, kind, msg) ==
  /\ err # NoError
  /\ \/ (err.kind = kind /\ err.msg = msg)
     \/ ("cause" \in DOMAIN err /\ InCauseChain(err.cause, kind, msg))

\* C25: when the handler of a registered tool raised on every attempt of a
\* run, the error run finally raises has the handler's error in its cause
\* chain.
C25_ToolErrorInCauseChain ==
  (variant \in Variants /\ RunRaised /\ runs = 1
   /\ only \in {"toolretry", "toolfail"} /\ lastTool.how = "throws") =>
    InCauseChain(outcome.error, "Error", "tool failed")

\* The turn at i is a tool turn answering a call of the nearest assistant
\* turn before it, with tool turns only in between.
AnswersNearestAssistant(msgs, n) ==
  \E j \in 1..(n - 1) :
    /\ msgs[j].role = "assistant"
    /\ "tool_calls" \in DOMAIN msgs[j]
    /\ \E k \in DOMAIN msgs[j].tool_calls :
         msgs[j].tool_calls[k].id = msgs[n].tool_call_id
    /\ \A m \in (j + 1)..(n - 1) : msgs[m].role = "tool"

\* C26: in the transcript of the tool loop every tool turn carries the id of
\* a call of the nearest assistant turn before it, and an assistant turn the
\* loop pushed with null content has a non-empty list of tool calls.
C26_TranscriptWellFormed ==
  variant \in {LoopVariant, LibVariant} =>
    \A n \in DOMAIN transcript :
      /\ transcript[n].role = "tool" => AnswersNearestAssistant(transcript, n)
      /\ ("tool_calls" \in DOMAIN transcript[n] /\ transcript[n].content = <<>>)
           => transcript[n].tool_calls # <<>>

\* The tool registered last under name, as it was passed to registerTool.
LastRegisteredTool(name) ==
  registrations[CHOOSE k \in PlacesOf(registrations, name) :
                  \A j \in PlacesOf(registrations, name) : j <= k]

\* C28: at the start of a run a tool registered with its own retries has
\* that value as its budget, and a tool registered without one has the
\* default retries of the Agent.
C28_BudgetStartsAtOwnRetries ==
  atRunStart =>
    \A k \in 1..Len(registry) :
      registry[k].retries =
        IF LastRegisteredTool(registry[k].name).retries = NoRetries
        THEN regDefault
        ELSE LastRegisteredTool(registry[k].name).retries

RECURSIVE NonEmptyPromptTurns(_)
\* A system turn for every function that yields a non-empty text, in the
\* order of the functions.
NonEmptyPromptTurns(funcs) ==
  IF funcs = <<>> THEN <<>>
  ELSE (IF Head(funcs).text # <<>> THEN <<[role |-> "system", content |-> Head(funcs).text]>>
        ELSE <<>>) \o NonEmptyPromptTurns(Tail(funcs))

\* C29: in an assembled message list the turns between the static system
\* prompts and the history are one system turn for each dynamic prompt
\* function that yields a non-empty text, and none for the others, whether
\* the function returns its text directly or through a promise.
C29_DynamicPromptIffNonEmpty ==
  asmOut.done =>
    SubSeq(asmOut.messages, Len(asmIn.systemPrompts) + 1,
           Len(asmOut.messages) - Len(asmIn.messageHistory) - 1)
      = NonEmptyPromptTurns(asmIn.systemPromptFunctions)

(***************************************************************************)
(* Claims about lastRunMessages.                                           *)
(***************************************************************************)
\* C30: getLastRunMessages gives null before any run, and after any run or
\* runStream call, returned or failed, the message list assembled for the
\* most recent attempt, the internal retry attempts included: the system
\* prompt, the dynamic prompt as its latest invocation gave it, and the
\* user prompt of the latest call.
C30_LastRunMessagesOfLatestAttempt ==
  /\ lrLog = <<>> => lrMessages = <<>>
  /\ lrLog # <<>> =>
       lrMessages = << [role |-> "system", content |-> <<"S">>],
                       [role |-> "system", content |-> DynText(lrInvocations)],
                       [role |-> "user", content |-> lrPrompt] >>

\* A run that was retried internally and then failed, followed by a
\* runStream call with the prompt "q" that was rejected.
C30_Witness ==
  /\ lrLog = <<"run", "rerun", "raised", "streamRejected">>
  /\ lrInvocations = 3
  /\ lrMessages[3].content = <<"q">>

(***************************************************************************)
(* Claims about concurrent invocations.                                    *)
(***************************************************************************)
\* C27: while an invocation of run is under way, a step of another
\* invocation changes neither the result-retry counter nor the retry budget
\* of the tool.
C27_InvocationsIsolated ==
  [][\A a \in Invocations :
       (ccPc[a] \in {"create", "backoff"} /\ ccActor' # a) =>
         (ccRetry' = ccRetry /\ ccBudget' = ccBudget)]_vars

C32_MissingPriceFatal ==
  (variant \in Variants /\ lastCls = "pricing") =>
    /\ RunRaised
    /\ attempts = 1
    /\ InCauseChain(outcome.error, "Error", "Pricing not found")

(***************************************************************************)
(* Claims about schemas of an unsupported kind.                            *)
(***************************************************************************)
\* C33: the conversion of an object schema to a wire descriptor never
\* fails, and a field of an unsupported kind becomes an open "object" or
\* "any" placeholder.
C33_UnsupportedKindDegrades ==
  genOut.done =>
    /\ genOut.descriptor # Thrown
    /\ \A k \in 1..Len(genIn.schema.shape) :
         genIn.schema.shape[k].value = ZDate =>
           genOut.descriptor.properties[k].value.type \in {"object", "any"}

(***************************************************************************)
(* Claims about the arrays of run.                                         *)
(***************************************************************************)
\* C34: run never modifies the messageHistory array of the caller, each run
\* builds a new transcript array, and the array of an earlier run is not
\* changed by a later run on the same Agent.
C34_TranscriptIsNewArray ==
  /\ frHeap[frHistory] = frHistory0
  /\ \A k \in 1..Len(frTranscripts) :
       /\ frTranscripts[k].ref # frHistory
       /\ frHeap[frTranscripts[k].ref] = frTranscripts[k].messages
       /\ \A j \in 1..Len(frTranscripts) :
            j # k => frTranscripts[j].ref # frTranscripts[k].ref

\* Two runs were given the history of the caller, with different prompts.
C34_Witness ==
  /\ Len(frTranscripts) = 2
  /\ frHistory0 # <<>>
  /\ Len(frTranscripts[1].messages) > Len(frHistory0)
  /\ Len(frTranscripts[2].messages) > Len(frHistory0)
  /\ frTranscripts[1].messages # frTranscripts[2].messages

(***************************************************************************)
(* Claims about the tool loop of lib/agent.ts.                             *)
(***************************************************************************)
\* C37: one run of lib/agent.ts makes at most MAX_TOOL_CALLS rounds of tool
\* execution.
C37_AtMostMaxToolRounds == llRounds <= MAX_TOOL_CALLS

\* C38: after a response with two calls of the same tool, the entry of the
\* tool in toolResults is the result of the call that is later in the call
\* order, whatever order the two handlers completed in.
C38_LaterCallWins ==
  (Len(llLast.calls) = 2 /\ llLast.calls[1].name = llLast.calls[2].name) =>
    llToolResults[llLast.calls[2].name] = <<llLast.calls[2].args>>

(***************************************************************************)
(* Claims about the result retries and the transport calls of a run.       *)
(***************************************************************************)
\* C35: the result-retry budget is per top-level run: a run raises for a
\* ModelRetry only after it has itself been retried maxResultRetries times,
\* whatever the earlier runs on the Agent have consumed.
C35_ResultRetriesPerRun ==
  (variant \in Variants /\ RunRaised /\ origError.kind = "ModelRetry") =>
    currentRetry - retryAtStart = maxResultRetries

\* C36: a top-level run makes at most retries * (resultRetries + 1)
\* transport calls, and a run that is under way ends: it returns or raises.
C36_RunTerminates ==
  /\ [](variant \in Variants =>
         /\ attempts <= defaultRetries * (maxResultRetries + 1)
         /\ pc = "done" => outcome.kind \in {"returned", "raised"})
  /\ (variant \in Variants /\ pc \in {"attempt", "backoff"}) ~> (pc = "done")

\* A run of a fresh Agent ended after the most transport calls it can make.
C36_Witness ==
  /\ RunRaised
  /\ defaultRetries = MaxRetries
  /\ maxResultRetries = MaxResultRetries
  /\ attempts = MaxRetries * (MaxResultRetries + 1)

C40_GetAllInInsertionOrder ==
  \A j, k \in 1..Len(messages) :
    j < k => messages[j].id < messages[k].id
====
